---- MODULE Spec2Model ----
(***************************************************************************)
(* A model of the YouTube Transcript Manager (package ytm): the filename   *)
(* sanitizer, the transcript selector, the format serializer with the      *)
(* combiner's Markdown parser, and the channel / single-video fetch        *)
(* orchestrators.                                                          *)
(*                                                                         *)
(* Strings are sequences of Unicode code points (Python's ord), so that    *)
(* "ord(c) < 128", the character classes of the regular expressions and    *)
(* the slicing are modelled by what they do.  Python's None is NoneVal.    *)
(***************************************************************************)
EXTENDS Integers, Sequences, FiniteSets, TLC

\* Python's None, where a string is expected: a sequence no string equals.
NoneVal == << -1 >>
\* None, where a list of strings is expected
NoneList == << NoneVal >>
\* None, where a list of transcript entries is expected
NoneEntries == << [text |-> NoneVal, start |-> -1, duration |-> -1] >>

\* ------------------------------------------------------------------------
\* Bounds of the model
\* ------------------------------------------------------------------------
\* longest free part of a title given to clean_filename
MaxTail == 3
\* longest list of requested languages given to get_transcript
MaxLangs == 2
\* most videos a channel lists
MaxVideos == 2
\* the entries of a transcript that is written and parsed
MaxEntries == 2
\* how far the length of a run of id characters in a URL lies from 11
MaxExtra == 1
\* the lines of a file of the corpus
MaxLines == 2

\* ------------------------------------------------------------------------
\* ytm/utils.py: clean_filename
\* ------------------------------------------------------------------------
\* str.isspace(), which is also the class \s of a str pattern
SpaceChars ==
    (9..13) \cup (28..32) \cup {133, 160, 5760, 8232, 8233, 8239, 8287, 12288}
    \cup (8192..8202)

IsSpace(c) == c \in SpaceChars

\* the characters of the class [\\/:*?"<>|]
InvalidChars == {92, 47, 58, 42, 63, 34, 60, 62, 124}

\* max_len of clean_filename
max_len == 150

\* "untitled"
Untitled == <<117, 110, 116, 105, 116, 108, 101, 100>>

\* str.strip(chars): the string without its leading and trailing characters of chars
StripBy(s, chars) ==
    LET n == Len(s)
    IN  IF \A i \in 1..n : s[i] \in chars THEN << >>
        ELSE LET lo == CHOOSE i \in 1..n : s[i] \notin chars /\ \A j \in 1..(i - 1) : s[j] \in chars
                 hi == CHOOSE i \in 1..n : s[i] \notin chars /\ \A j \in (i + 1)..n : s[j] \in chars
             IN  SubSeq(s, lo, hi)

\* re.sub(r'[\\/:*?"<>|]', "_", text)
ReplaceInvalid(s) == [i \in 1..Len(s) |-> IF s[i] \in InvalidChars THEN 95 ELSE s[i]]

\* unicodedata.normalize("NFKD", c) for one code point: the compatibility
\* decomposition of the Unicode character database, for the code points the
\* model's inputs use (ASCII is its own decomposition)
NFKDChar(c) ==
    CASE c = 160   -> <<32>>                 \* NO-BREAK SPACE -> SPACE
      [] c = 233   -> <<101, 769>>           \* e with acute -> e, COMBINING ACUTE
      [] c = 8230  -> <<46, 46, 46>>         \* HORIZONTAL ELLIPSIS -> ...
      [] c = 8453  -> <<99, 47, 111>>        \* CARE OF -> c/o
      [] c = 65295 -> <<47>>                 \* FULLWIDTH SOLIDUS -> /
      [] c = 65306 -> <<58>>                 \* FULLWIDTH COLON -> :
      [] c = 65343 -> <<95>>                 \* FULLWIDTH LOW LINE -> _
      [] OTHER     -> <<c>>

\* the decompositions of s[lo..hi], joined (halving keeps the recursion shallow)
RECURSIVE NFKDRange(_, _, _)
NFKDRange(s, lo, hi) ==
    IF lo > hi THEN << >>
    ELSE IF lo = hi THEN NFKDChar(s[lo])
    ELSE LET mid == (lo + hi) \div 2
         IN  NFKDRange(s, lo, mid) \o NFKDRange(s, mid + 1, hi)

\* unicodedata.normalize("NFKD", text)
NFKD(s) == NFKDRange(s, 1, Len(s))

\* text.replace("\xa0", " ")
ReplaceNbsp(s) == [i \in 1..Len(s) |-> IF s[i] = 160 THEN 32 ELSE s[i]]

\* "".join(c if ord(c) < 128 else "_" for c in text)
AsciiOnly(s) == [i \in 1..Len(s) |-> IF s[i] < 128 THEN s[i] ELSE 95]

IsCollapsed(c) == c = 95 \/ IsSpace(c)

\* re.sub(r"[_\s]+", " ", text): every maximal run of the class becomes one space
Collapse(s) ==
    LET RECURSIVE Pick(_, _)
        Pick(lo, hi) ==
            IF lo > hi THEN << >>
            ELSE IF lo = hi
                 THEN IF ~IsCollapsed(s[lo]) THEN <<s[lo]>>
                      ELSE IF lo = 1 \/ ~IsCollapsed(s[lo - 1]) THEN <<32>>
                      ELSE << >>
            ELSE LET mid == (lo + hi) \div 2
                 IN  Pick(lo, mid) \o Pick(mid + 1, hi)
    IN  Pick(1, Len(s))

\* the characters of strip(" ._")
TrimmedChars == {32, 46, 95}

\* text[:max_len].rsplit(" ", 1)[0]
CutAtSpace(s) ==
    LET head   == [i \in 1..max_len |-> s[i]]
        spaces == {i \in 1..max_len : head[i] = 32}
    IN  IF spaces = {} THEN head
        ELSE LET last == CHOOSE i \in spaces : \A j \in spaces : j <= i
             IN  [i \in 1..(last - 1) |-> head[i]]

\* the text before the limit of its length is applied
Cleaned(text) ==
    LET t1 == ReplaceInvalid(text)
        t2 == AsciiOnly(ReplaceNbsp(NFKD(t1)))
        t3 == Collapse(t2)
    IN  StripBy(t3, TrimmedChars)

\* the cleaning steps of clean_filename, for a string that is not blank
CleanSteps(text) ==
    LET t4 == Cleaned(text)
    IN  IF Len(t4) > max_len THEN CutAtSpace(t4) ELSE t4

\* not isinstance(text, str) or not text.strip()
IsBlank(text) == text = NoneVal \/ StripBy(text, SpaceChars) = << >>

\* clean_filename without its last line's fallback
CleanNoFallback(text) == IF IsBlank(text) THEN Untitled ELSE CleanSteps(text)

clean_filename(text) ==
    IF IsBlank(text) THEN Untitled
    ELSE IF CleanSteps(text) = << >> THEN Untitled ELSE CleanSteps(text)

\* ------------------------------------------------------------------------
\* ytm/utils.py: extract_video_id
\* ------------------------------------------------------------------------
\* the class [a-zA-Z0-9_-]
IdChars == (48..57) \cup (65..90) \cup (97..122) \cup {95, 45}

\* the literal parts of the four URL patterns that must be there:
\* "youtube.com/watch?", "youtu.be/", "youtube.com/shorts/", "youtube.com/embed/"
WatchLit == <<121, 111, 117, 116, 117, 98, 101, 46, 99, 111, 109, 47, 119, 97, 116, 99, 104, 63>>
ShortLit == <<121, 111, 117, 116, 117, 46, 98, 101, 47>>
ShortsLit == <<121, 111, 117, 116, 117, 98, 101, 46, 99, 111, 109, 47, 115, 104, 111, 114, 116, 115, 47>>
EmbedLit == <<121, 111, 117, 116, 117, 98, 101, 46, 99, 111, 109, 47, 101, 109, 98, 101, 100, 47>>

\* lit occurs in s at position p
OccursAt(s, lit, p) ==
    /\ p >= 1
    /\ p + Len(lit) - 1 <= Len(s)
    /\ \A k \in 1..Len(lit) : s[p + k - 1] = lit[k]

\* ([a-zA-Z0-9_-]{11}) matches at position q
IdRunAt(s, q) ==
    /\ q >= 1
    /\ q + 10 <= Len(s)
    /\ \A k \in 0..10 : s[q + k] \in IdChars

IdAt(s, q) == [k \in 1..11 |-> s[q + k - 1]]

\* re.search of a pattern "(optional prefixes)lit([a-zA-Z0-9_-]{11})":
\* group 1 of the leftmost match, None when there is none
SearchAfter(s, lit) ==
    LET hits == {p \in 1..Len(s) : OccursAt(s, lit, p) /\ IdRunAt(s, p + Len(lit))}
    IN  IF hits = {} THEN NoneVal
        ELSE IdAt(s, (CHOOSE p \in hits : \A r \in hits : p <= r) + Len(lit))

\* re.search of the watch pattern, "...youtube\.com/watch\?.*v=([a-zA-Z0-9_-]{11})":
\* the leftmost "youtube.com/watch?" that a "v=" and an id follow on the same
\* line, and, ".*" being greedy, the last such "v="
SearchWatch(s) ==
    LET vAfter(p) == {q \in (p + Len(WatchLit))..Len(s) :
                         /\ OccursAt(s, <<118, 61>>, q)
                         /\ IdRunAt(s, q + 2)
                         /\ \A k \in (p + Len(WatchLit))..(q - 1) : s[k] # 10}
        hits == {p \in 1..Len(s) : OccursAt(s, WatchLit, p) /\ vAfter(p) # {}}
    IN  IF hits = {} THEN NoneVal
        ELSE LET p  == CHOOSE x \in hits : \A r \in hits : x <= r
                 qs == vAfter(p)
             IN  IdAt(s, (CHOOSE q \in qs : \A r \in qs : r <= q) + 2)

extract_video_id(url_or_id) ==
    IF url_or_id = NoneVal \/ url_or_id = << >> THEN NoneVal
    ELSE LET s == StripBy(url_or_id, SpaceChars)
         IN  IF SearchWatch(s) # NoneVal THEN SearchWatch(s)
             ELSE IF SearchAfter(s, ShortLit) # NoneVal THEN SearchAfter(s, ShortLit)
             ELSE IF SearchAfter(s, ShortsLit) # NoneVal THEN SearchAfter(s, ShortsLit)
             ELSE IF SearchAfter(s, EmbedLit) # NoneVal THEN SearchAfter(s, EmbedLit)
             ELSE IF Len(s) = 11 /\ IdRunAt(s, 1) THEN s
             ELSE NoneVal

\* ------------------------------------------------------------------------
\* Inputs of extract_video_id: a prefix, the text of a URL shape, a run of
\* id characters and what follows the run
\* ------------------------------------------------------------------------
\* the {11} of the patterns
IdLen == 11

\* "", "https://", "http://", "www.", "https://www."
UrlPrefixes ==
    {<< >>, <<104, 116, 116, 112, 115, 58, 47, 47>>, <<104, 116, 116, 112, 58, 47, 47>>,
     <<119, 119, 119, 46>>, <<104, 116, 116, 112, 115, 58, 47, 47, 119, 119, 119, 46>>}

UrlShapes == {"watch", "youtu.be", "shorts", "embed", "bare"}

\* the text of a shape up to the id
ShapeText(shape) ==
    CASE shape = "watch"    -> WatchLit \o <<118, 61>>
      [] shape = "youtu.be" -> ShortLit
      [] shape = "shorts"   -> ShortsLit
      [] shape = "embed"    -> EmbedLit
      [] shape = "bare"     -> << >>

\* runs of id characters: the first n of "dQw4w9WgXcQ-_7zK...", and n times "A"
RunBases == {<<100, 81, 119, 52, 119, 57, 87, 103, 88, 99, 81, 45, 95, 55, 122, 75>>, <<65>>}

RunOf(base, n) == [i \in 1..n |-> base[((i - 1) % Len(base)) + 1]]

RunLens == (IdLen - MaxExtra)..(IdLen + MaxExtra)

\* further query parameters: "&t=120", "&list=PL1&index=3", "&rv=AAAAAAAAAAA"
QueryParams ==
    {<<38, 116, 61, 49, 50, 48>>,
     <<38, 108, 105, 115, 116, 61, 80, 76, 49, 38, 105, 110, 100, 101, 120, 61, 51>>,
     <<38, 114, 118, 61, 65, 65, 65, 65, 65, 65, 65, 65, 65, 65, 65>>}

\* what follows the run: nothing, a query parameter, "?x=1", "/"
UrlSuffixes == {<< >>, <<63, 120, 61, 49>>, <<47>>} \cup QueryParams

\* the suffixes that hold no "v=" with id characters after it
PlainSuffixes == {<< >>, <<63, 120, 61, 49>>, <<47>>, <<38, 116, 61, 49, 50, 48>>}

UrlOf(scn) == scn.prefix \o ShapeText(scn.shape) \o scn.run \o scn.suffix

\* ------------------------------------------------------------------------
\* Inputs of the sanitizer: a run of PadLen letters followed by a free tail
\* ------------------------------------------------------------------------
\* the characters the free part of a title is made of:
\* a, space, period, underscore, slash, FULLWIDTH SOLIDUS, e with acute
TitleChars == {97, 32, 46, 95, 47, 65295, 233}

\* lengths of the leading run of letters: none, and around max_len
PadLens == {0, max_len - 2, max_len - 1, max_len}

Pad(n) == [i \in 1..n |-> 97]

RECURSIVE StringsUpTo(_, _)
StringsUpTo(A, n) ==
    IF n = 0 THEN {<< >>}
    ELSE LET shorter == StringsUpTo(A, n - 1)
         IN  shorter \cup {Append(s, c) : s \in shorter, c \in A}

\* a run of n characters with a word boundary in it: "a", a space, letters
SpacedPad(n) == <<97, 32>> \o Pad(n - 2)

CleanInputs ==
    {NoneVal}
    \cup {Pad(n) \o t : n \in PadLens, t \in StringsUpTo(TitleChars, MaxTail)}
    \cup {SpacedPad(max_len) \o t : t \in StringsUpTo(TitleChars, MaxTail)}

\* ------------------------------------------------------------------------
\* ytm/fetcher.py: get_transcript, over the transcript source it calls
\* ------------------------------------------------------------------------
\* language codes: "en", "de"
LangEn == <<101, 110>>
LangDe == <<100, 101>>
Langs == {LangEn, LangDe}

\* the exceptions the transcript source raises: the two get_transcript names,
\* and any other Exception
Exceptions == {"TranscriptsDisabled", "NoTranscriptFound", "Other"}

\* A transcript source, as one video presents it:
\*   list      the outcome of list_transcripts: "ok" or the exception raised
\*   manual    the languages that have a manually created track
\*   generated the languages that have a generated track
\*   fetch     for each track, what fetching it does: "error" (it raises an
\*             exception that is neither of the two names), "notfound" (it
\*             raises NoTranscriptFound), "empty" (no entries) or "data"
\*             (the track's entries)
Tracks == {"manual", "generated"} \X Langs

Sources ==
    [list : {"ok"} \cup Exceptions,
     manual : SUBSET Langs,
     generated : SUBSET Langs,
     fetch : [Tracks -> {"error", "notfound", "empty", "data"}]]

\* the entries a track holds: one entry, whose text names the track
TrackEntries(track) ==
    << [text |-> (IF track[1] = "manual" THEN <<109>> ELSE <<103>>) \o track[2],
        start |-> 0, duration |-> 2000] >>

\* the first index of langs whose language is in have, 0 when there is none:
\* the loop "for language_code in language_codes" of the track lookups
FirstMatch(langs, have) ==
    LET hits == {i \in 1..Len(langs) : langs[i] \in have}
    IN  IF hits = {} THEN 0 ELSE CHOOSE i \in hits : \A j \in hits : i <= j

\* transcript_list.find_manually_created_transcript(languages):
\* the track found, or the exception raised
find_manually_created_transcript(src, langs) ==
    LET i == FirstMatch(langs, src.manual)
    IN  IF i = 0 THEN [exc |-> "NoTranscriptFound"]
        ELSE [exc |-> "none", track |-> <<"manual", langs[i]>>]

\* transcript_list.find_generated_transcript(languages)
find_generated_transcript(src, langs) ==
    LET i == FirstMatch(langs, src.generated)
    IN  IF i = 0 THEN [exc |-> "NoTranscriptFound"]
        ELSE [exc |-> "none", track |-> <<"generated", langs[i]>>]

\* transcript.fetch(): the entries, or the exception raised
fetch(src, track) ==
    CASE src.fetch[track] = "error" -> [exc |-> "Other"]
      [] src.fetch[track] = "notfound" -> [exc |-> "NoTranscriptFound"]
      [] src.fetch[track] = "empty" -> [exc |-> "none", value |-> << >>]
      [] OTHER                      -> [exc |-> "none", value |-> TrackEntries(track)]

\* A get_transcript whose outer try names TranscriptsDisabled alone: any other
\* exception leaves the call
OuterHandlersDisabledOnly(exc, calls) ==
    IF exc = "TranscriptsDisabled"
    THEN [ret |-> NoneEntries, raised |-> "none", calls |-> calls]
    ELSE [ret |-> NoneEntries, raised |-> exc, calls |-> calls]

\* the handlers of the outer try: "except TranscriptsDisabled" and
\* "except Exception", each returning None
OuterHandlers(exc, calls) ==
    IF exc = "TranscriptsDisabled"
    THEN [ret |-> NoneEntries, raised |-> "none", calls |-> calls]
    ELSE [ret |-> NoneEntries, raised |-> "none", calls |-> calls]

\* the second inner try: the generated track is looked up and fetched;
\* "except NoTranscriptFound: return None" takes that exception of either call
GeneratedLookup(src, langs, calls) ==
    LET found  == find_generated_transcript(src, langs)
        calls1 == Append(calls, <<"find_generated">>)
    IN  IF found.exc = "NoTranscriptFound"
        THEN [ret |-> NoneEntries, raised |-> "none", calls |-> calls1]
        ELSE LET got    == fetch(src, found.track)
                 calls2 == Append(calls1, <<"fetch", found.track>>)
             IN  IF got.exc = "none"
                 THEN [ret |-> got.value, raised |-> "none", calls |-> calls2]
                 ELSE IF got.exc = "NoTranscriptFound"
                 THEN [ret |-> NoneEntries, raised |-> "none", calls |-> calls2]
                 ELSE OuterHandlers(got.exc, calls2)

\* A get_transcript that tries the generated track first and the manual track
\* only when no generated track matches
ManualLookupAfterGenerated(src, langs, calls) ==
    LET found  == find_generated_transcript(src, langs)
        calls1 == Append(calls, <<"find_generated">>)
    IN  IF found.exc = "NoTranscriptFound"
        THEN LET m      == find_manually_created_transcript(src, langs)
                 calls2 == Append(calls1, <<"find_manual">>)
             IN  IF m.exc = "NoTranscriptFound"
                 THEN [ret |-> NoneEntries, raised |-> "none", calls |-> calls2]
                 ELSE LET got == fetch(src, m.track)
                      IN  IF got.exc = "none"
                          THEN [ret |-> got.value, raised |-> "none",
                                calls |-> Append(calls2, <<"fetch", m.track>>)]
                          ELSE OuterHandlers(got.exc, Append(calls2, <<"fetch", m.track>>))
        ELSE LET got    == fetch(src, found.track)
                 calls2 == Append(calls1, <<"fetch", found.track>>)
             IN  IF got.exc = "none"
                 THEN [ret |-> got.value, raised |-> "none", calls |-> calls2]
                 ELSE OuterHandlers(got.exc, calls2)

\* the first inner try: the manual track is looked up and fetched;
\* "except NoTranscriptFound: pass" takes that exception of either call, and
\* the generated track is tried
ManualLookup(src, langs, calls) ==
    LET found  == find_manually_created_transcript(src, langs)
        calls1 == Append(calls, <<"find_manual">>)
    IN  IF found.exc = "NoTranscriptFound"
        THEN GeneratedLookup(src, langs, calls1)
        ELSE LET got    == fetch(src, found.track)
                 calls2 == Append(calls1, <<"fetch", found.track>>)
             IN  IF got.exc = "none"
                 THEN [ret |-> got.value, raised |-> "none", calls |-> calls2]
                 ELSE IF got.exc = "NoTranscriptFound"
                 THEN GeneratedLookup(src, langs, calls2)
                 ELSE OuterHandlers(got.exc, calls2)

\* get_transcript(video_id, languages): what it returns (ret), the exception
\* that leaves it (raised, "none" when it returns) and the calls it made to
\* the transcript source, in order
get_transcript(src, languages) ==
    LET langs == IF languages = NoneList THEN <<LangEn>> ELSE languages
        calls == << <<"list">> >>
    IN  IF src.list # "ok" THEN OuterHandlers(src.list, calls)
        ELSE ManualLookup(src, langs, calls)

\* ------------------------------------------------------------------------
\* ytm/fetcher.py: save_transcript, file_already_exists over the output directory
\* ------------------------------------------------------------------------
\* format tags: "md", "json", "txt", "srt", and "pdf" for a tag that is none of these
FmtMd == <<109, 100>>
FmtJson == <<106, 115, 111, 110>>
FmtTxt == <<116, 120, 116>>
FmtSrt == <<115, 114, 116>>
FmtPdf == <<112, 100, 102>>

\* extension = fmt if fmt in ("md", "json", "txt", "srt") else "md"
Extension(fmt) == IF fmt \in {FmtMd, FmtJson, FmtTxt, FmtSrt} THEN fmt ELSE FmtMd

\* f"{cleaned_title}.{extension}": the file's name
FileName(title, fmt) == clean_filename(title) \o <<46>> \o Extension(fmt)

\* The file system under save_transcript and file_already_exists: a function
\* from the absolute, normalised paths of the files and directories there are
\* to what they hold.  The root is always there and is no key of it; every
\* other file or directory is in a directory that is there.  There are no
\* symbolic links, and the working directory is the root.
Root == <<47>>

\* output_dir, the directory the runs save to: "/out"
OutputDir == <<47, 111, 117, 116>>

IsAbsolute(path) == path # << >> /\ path[1] = 47

\* os.path.join(a, b): b alone when it starts with "/"
join(a, b) ==
    IF IsAbsolute(b) THEN b
    ELSE IF a = << >> \/ a[Len(a)] = 47 THEN a \o b
    ELSE a \o <<47>> \o b

\* os.path.basename(path): what follows the last "/"
basename(path) ==
    SubSeq(path,
           1 + (IF \E i \in 1..Len(path) : path[i] = 47
                THEN CHOOSE i \in 1..Len(path) :
                         path[i] = 47 /\ \A j \in (i + 1)..Len(path) : path[j] # 47
                ELSE 0),
           Len(path))

\* what a directory holds
Directory == [video |-> NoneVal, title |-> NoneVal, writer |-> "dir"]

IsDirectory(fs, p) == p = Root \/ (p \in DOMAIN fs /\ fs[p] = Directory)

\* the directory a normalised path is in; the root is in itself
Parent(p) ==
    LET last == CHOOSE i \in 1..Len(p) : p[i] = 47 /\ \A j \in (i + 1)..Len(p) : p[j] # 47
    IN  IF last = 1 THEN Root ELSE SubSeq(p, 1, last - 1)

\* the normalised path of an entry of a directory
Child(dir, name) == IF dir = Root THEN Root \o name ELSE dir \o <<47>> \o name

\* the directories above a normalised path, the root left out
Ancestors(p) == {SubSeq(p, 1, i - 1) : i \in {j \in 2..Len(p) : p[j] = 47}}

\* The walk the system makes along a path, from the directory cur and the
\* component that starts at position i: "." stays, ".." goes up, a name goes
\* to the entry of that name, and every component but the last has to lead
\* to a directory that is there.  It gives the normalised path the path
\* names, whether or not something is there, or None when a directory on the
\* way is missing or is a file.  Slashes in a row count as one.
RECURSIVE Walk(_, _, _, _)
Walk(fs, path, i, cur) ==
    IF i > Len(path) THEN cur
    ELSE LET e    == IF \E j \in i..Len(path) : path[j] = 47
                     THEN (CHOOSE j \in i..Len(path) :
                               path[j] = 47 /\ \A k \in i..(j - 1) : path[k] # 47) - 1
                     ELSE Len(path)
             name == SubSeq(path, i, e)
             to   == IF name = <<46>> THEN cur
                     ELSE IF name = <<46, 46>> THEN Parent(cur)
                     ELSE Child(cur, name)
             rest == IF \E j \in (e + 1)..Len(path) : path[j] # 47
                     THEN CHOOSE j \in (e + 1)..Len(path) :
                              path[j] # 47 /\ \A k \in (e + 1)..(j - 1) : path[k] = 47
                     ELSE Len(path) + 1
         IN  IF e = Len(path) THEN to
             ELSE IF IsDirectory(fs, to) THEN Walk(fs, path, rest, to)
             ELSE NoneVal

\* the file or directory a path names: None for the empty path and for a path
\* that holds a NUL character, which no system call takes
Resolve(fs, path) ==
    IF path = << >> \/ \E i \in 1..Len(path) : path[i] = 0 THEN NoneVal
    ELSE IF \A i \in 1..Len(path) : path[i] = 47 THEN Root
    ELSE Walk(fs, path, CHOOSE i \in 1..Len(path) :
                            path[i] # 47 /\ \A k \in 1..(i - 1) : path[k] = 47, Root)

\* os.path.exists(path)
exists(fs, path) == Resolve(fs, path) \in DOMAIN fs \cup {Root}

\* os.makedirs(dir, exist_ok=True) for a normalised path: the file system
\* with the directory and the missing directories above it.  It raises, and
\* makes nothing, when a file is in the place of one of them.
makedirs(fs, dir) ==
    IF \E d \in Ancestors(dir) \cup {dir} : d \in DOMAIN fs /\ fs[d] # Directory
    THEN [raised |-> TRUE, fs |-> fs]
    ELSE [raised |-> FALSE,
          fs |-> [q \in DOMAIN fs \cup Ancestors(dir) \cup {dir} |->
                     IF q \in DOMAIN fs THEN fs[q] ELSE Directory]]

\* What a file holds: the video and title a writer was given, and the
\* writer; "partial" for a file whose writer failed, "old" for a file no
\* run wrote.
OldFile == [video |-> NoneVal, title |-> NoneVal, writer |-> "old"]

\* a file system with the root alone
EmptyDir == [q \in {} |-> OldFile]

\* the writer the if/elif chain of save_transcript picks
WriterOf(fmt) ==
    CASE fmt = FmtMd   -> "_write_markdown"
      [] fmt = FmtJson -> "_write_json"
      [] fmt = FmtTxt  -> "_write_text"
      [] fmt = FmtSrt  -> "_write_srt"
      [] OTHER         -> "_write_markdown"

\* os.listdir(output_dir): the entries of the output directory by name
OutputDirectory(fs) ==
    [n \in {basename(p) : p \in {q \in DOMAIN fs : Parent(q) = OutputDir}} |->
        fs[Child(OutputDir, n)]]

\* os.path.exists(os.path.join(output_dir, filename))
file_already_exists(fs, title, fmt) == exists(fs, join(OutputDir, FileName(title, fmt)))

\* "not title" of save_transcript: the title is None or the empty string
NoTitle(title) == title = NoneVal \/ title = << >>

\* output_path of save_transcript: the file is named after the title, or
\* after the id when there is no title
SavePath(title, video_id, fmt) ==
    join(OutputDir, FileName(IF NoTitle(title) THEN video_id ELSE title, fmt))

\* save_transcript: the path it returns (None on failure), whether the file
\* was opened, and the file system afterwards.  os.makedirs and open() are
\* in the try block: when one of them raises, None is returned.  open()
\* raises for a path with a missing directory, for a directory, and for the
\* files of env.unopenable; for the files of env.writefail the file is
\* opened, so created or emptied, and the writer raises.
save_transcript(fs, env, title, video_id, fmt) ==
    LET title1 == IF NoTitle(title) THEN video_id ELSE title
        path   == SavePath(title, video_id, fmt)
        made   == makedirs(fs, OutputDir).fs
        file   == Resolve(made, path)
    IN  IF makedirs(fs, OutputDir).raised
        THEN [ret |-> NoneVal, fs |-> fs, path |-> path, opened |-> FALSE]
        ELSE IF file = NoneVal \/ IsDirectory(made, file) \/ file \in env.unopenable
        THEN [ret |-> NoneVal, fs |-> made, path |-> path, opened |-> FALSE]
        ELSE [ret |-> IF file \in env.writefail THEN NoneVal ELSE path,
              path |-> path, opened |-> TRUE,
              fs |-> [q \in DOMAIN made \cup {file} |->
                         IF q = file
                         THEN [video |-> video_id, title |-> title1,
                               writer |-> IF file \in env.writefail THEN "partial"
                                          ELSE WriterOf(fmt)]
                         ELSE made[q]]]

\* ------------------------------------------------------------------------
\* ytm/fetcher.py: fetch_channel_transcripts, and run_fetch of ytm/cli.py
\* ------------------------------------------------------------------------
\* titles: "", "A", and "A?" (which is sanitized to "A")
TitleEmpty == << >>
TitleA == <<65>>
TitleAQ == <<65, 63>>
\* "a", FULLWIDTH SOLIDUS, "b", whose name is "a/b"; FULLWIDTH SOLIDUS alone,
\* whose name is "/"
TitleSlash == <<97, 65295, 98>>
TitleRoot == <<65295>>
\* FULLWIDTH SOLIDUS, "out", FULLWIDTH SOLIDUS, "A", whose name is "/out/A"
TitleInto == <<65295, 111, 117, 116, 65295, 65>>
TitleB == <<66>>
EnumTitles == {TitleEmpty, TitleA, TitleAQ}

\* the id of the i-th video of a channel: eleven characters, "vvvvvvvvvv" and a digit
VideoId(i) == [k \in 1..11 |-> IF k = 11 THEN 48 + i ELSE 118]

\* transcript sources of a channel's videos: transcripts disabled; a generated
\* English track without entries; a manual and a generated English track
SrcDisabled ==
    [list |-> "TranscriptsDisabled", manual |-> {}, generated |-> {},
     fetch |-> [t \in Tracks |-> "error"]]
SrcEmpty ==
    [list |-> "ok", manual |-> {}, generated |-> {LangEn},
     fetch |-> [t \in Tracks |-> "empty"]]
SrcData ==
    [list |-> "ok", manual |-> {LangEn}, generated |-> {LangEn},
     fetch |-> [t \in Tracks |-> "data"]]
ChannelSources == {SrcDisabled, SrcEmpty, SrcData}

\* A video of a channel: the title get_channel_videos gives it, its
\* transcript source, and what get_video_title_from_api returns for it (None
\* when the lookup fails or finds no title).  Its id and url come from its
\* place in the listing.
VideoKinds(apiTitles) == [title : EnumTitles, src : ChannelSources, api : apiTitles]

Channels(apiTitles) == UNION {[1..n -> VideoKinds(apiTitles)] : n \in 0..MaxVideos}

\* the environments of a run, by the files of the output directory they are
\* about: nothing in the way; "A.<ext>" is there already; "A.<ext>" cannot be
\* opened; "A.<ext>" can be opened but the writer fails; "a/b.<ext>" is there
\* already, in the sub-directory "a"; "untitled.<ext>" is there already
Environment(kind, fmt) ==
    [pre        |-> CASE kind = "preexisting"  -> {join(OutputDir, FileName(TitleA, fmt))}
                      [] kind = "subdirectory" -> {join(OutputDir, FileName(TitleSlash, fmt))}
                      [] kind = "untitled"     -> {join(OutputDir, FileName(TitleEmpty, fmt))}
                      [] OTHER                 -> {},
     unopenable |-> IF kind = "unopenable" THEN {join(OutputDir, FileName(TitleA, fmt))} ELSE {},
     writefail  |-> IF kind = "writefail" THEN {join(OutputDir, FileName(TitleA, fmt))} ELSE {}]

\* the file system a run starts on: the files of env.pre and the directories
\* they are in
InitialFiles(env) ==
    [q \in env.pre \cup UNION {Ancestors(p) : p \in env.pre} |->
        IF q \in env.pre THEN OldFile ELSE Directory]

EnvKinds == {"clean", "preexisting", "unopenable", "writefail"}

\* the values of limit: negative, zero (all), and two cuts
Limits == {-1, 0, 1, 2}

ZeroTally == [success |-> 0, failed |-> 0, skipped |-> 0]

\* videos[:limit] whatever the limit: nothing for 0, all but the last -limit
\* for a negative limit
TruncateUnguarded(videos, limit) ==
    LET n == Len(videos)
        m == IF limit >= 0 THEN (IF limit < n THEN limit ELSE n)
             ELSE (IF n + limit > 0 THEN n + limit ELSE 0)
    IN  [i \in 1..m |-> videos[i]]

\* videos[:limit] if limit > 0
Truncate(videos, limit) ==
    IF limit > 0
    THEN [i \in 1..(IF limit < Len(videos) THEN limit ELSE Len(videos)) |-> videos[i]]
    ELSE videos

\* the title of the i-th video of the loop: the API's when a client was built
\* and the lookup returned a title, else the listing's
ResolvedTitle(video, client) ==
    IF client /\ video.api # NoneVal /\ video.api # << >> THEN video.api ELSE video.title

\* the channel branch of run_fetch: it prints the tally and returns
RunFetchChannelExit(results) == 0

\* ------------------------------------------------------------------------
\* ytm/fetcher.py: fetch_single_video_transcript
\* ------------------------------------------------------------------------
\* what the caller gives as video_url_or_id: an id, a short URL of it, the id
\* between blanks, a string that holds no id, the empty string
SingleInputs ==
    {VideoId(1), <<104, 116, 116, 112, 115, 58, 47, 47, 121, 111, 117, 116, 117, 46, 98, 101, 47>> \o VideoId(1), <<32>> \o VideoId(1) \o <<10>>,
     <<97, 98, 99>>, << >>}

\* The title sources of a single video.
\*   api    "nokey": no API key; "buildfail": building the client raises;
\*          "none": get_video_title_from_api returns None; "empty": it
\*          returns ""; "title": it returns "B"
\*   scrape what scrapetube.get_video gives: "raises"; "none" (no info);
\*          "runs": title.runs[0].text is the title; "runs_notext":
\*          runs[0] has no text; "noruns": the title holds no runs; "str":
\*          the title is a string; "other": it is neither dict nor string
\*   scraped the title the info carries
ApiOutcomes == {"nokey", "buildfail", "none", "empty", "title"}
ScrapeOutcomes == {"raises", "none", "runs", "runs_notext", "noruns", "str", "other"}
ScrapedTitles == {TitleA, TitleEmpty}

\* the else branch of the title's if: the title from scrapetube.get_video
ScrapedTitle(scn, video_id) ==
    CASE scn.scrape \in {"runs", "str"} -> scn.scraped
      [] OTHER                        -> video_id

\* "# Get title" of fetch_single_video_transcript: the title, and the title
\* sources called
SingleTitle(scn, video_id) ==
    IF scn.api # "nokey"
    THEN IF scn.api = "buildfail"
         THEN [title |-> video_id, calls |-> <<"build">>]
         ELSE [title |-> IF scn.api = "title" THEN TitleB ELSE video_id,
               calls |-> <<"build", "get_video_title_from_api">>]
    ELSE [title |-> ScrapedTitle(scn, video_id), calls |-> <<"scrapetube.get_video">>]

\* fetch_single_video_transcript: the path it returns (None on failure), the
\* title it found, the title sources and the transcript source it called, and
\* the file system afterwards
fetch_single_video_transcript(fs, scn) ==
    LET video_id == extract_video_id(scn.input)
    IN  IF video_id = NoneVal
        THEN [ret |-> NoneVal, video |-> NoneVal, title |-> NoneVal, calls |-> << >>, fs |-> fs]
        ELSE LET found == SingleTitle(scn, video_id)
                 got   == get_transcript(scn.src, NoneList)
                 calls == Append(found.calls, "get_transcript")
             IN  IF got.ret = NoneEntries \/ got.ret = << >>
                 THEN [ret |-> NoneVal, video |-> video_id, title |-> found.title,
                       calls |-> calls, fs |-> fs]
                 ELSE LET saved == save_transcript(fs, scn.env, found.title, video_id, scn.fmt)
                      IN  [ret |-> saved.ret, video |-> video_id, title |-> found.title,
                           calls |-> Append(calls, "save_transcript"), fs |-> saved.fs]

\* the video branch of run_fetch: sys.exit(1) when no path came back
RunFetchVideoExit(ret) == IF ret = NoneVal THEN 1 ELSE 0

\* the language lists a caller gives: None, or a non-empty list
LanguageLists ==
    {NoneList} \cup (UNION {[1..n -> Langs] : n \in 1..MaxLangs})

\* ------------------------------------------------------------------------
\* ytm/utils.py: format_timestamp; ytm/fetcher.py: _write_markdown;
\* ytm/combiner.py: the Markdown parser of _combine_as_json
\* ------------------------------------------------------------------------
\* the decimal digits of a natural number
RECURSIVE Dec(_)
Dec(n) == IF n < 10 THEN <<48 + n>> ELSE Dec(n \div 10) \o <<48 + (n % 10)>>

\* f"{n:02d}"
Dec02(n) == IF n < 10 THEN <<48>> \o Dec(n) ELSE Dec(n)

\* format_timestamp, of a time given in milliseconds
format_timestamp(millis) ==
    LET seconds == (IF millis < 0 THEN 0 ELSE millis) \div 1000
        hours   == seconds \div 3600
        minutes == (seconds % 3600) \div 60
        secs    == seconds % 60
    IN  IF hours > 0
        THEN Dec(hours) \o <<58>> \o Dec02(minutes) \o <<58>> \o Dec02(secs)
        ELSE Dec02(minutes) \o <<58>> \o Dec02(secs)

\* f"https://www.youtube.com/watch?v={video_id}"
UrlPrefix ==
    <<104, 116, 116, 112, 115, 58, 47, 47, 119, 119, 119, 46, 121, 111, 117, 116, 117, 98,
      101, 46, 99, 111, 109, 47, 119, 97, 116, 99, 104, 63, 118, 61>>

VideoUrl(video_id) == UrlPrefix \o video_id

\* "# ", "**Video URL:**", "## Transcript", "http", "` — ", "` - ", ".md"
HeadingMark == <<35, 32>>
UrlLabel == <<42, 42, 86, 105, 100, 101, 111, 32, 85, 82, 76, 58, 42, 42>>
TranscriptHeading == <<35, 35, 32, 84, 114, 97, 110, 115, 99, 114, 105, 112, 116>>
Http == <<104, 116, 116, 112>>
EmSep == <<96, 32, 8212, 32>>
HySep == <<96, 32, 45, 32>>
MdSuffix == <<46, 109, 100>>

\* entry["text"].replace("\n", " ").strip()
EntryText(text) ==
    StripBy([i \in 1..Len(text) |-> IF text[i] = 10 THEN 32 ELSE text[i]], SpaceChars)

\* the lines _write_markdown writes for the entries from the k-th on
RECURSIVE EntryLines(_, _)
EntryLines(transcript_data, k) ==
    IF k > Len(transcript_data) THEN << >>
    ELSE LET timestamp == format_timestamp(transcript_data[k].start)
             text      == EntryText(transcript_data[k].text)
         IN  (IF text # << >>
              THEN <<96>> \o timestamp \o EmSep \o text \o <<10>>
              ELSE << >>)
             \o EntryLines(transcript_data, k + 1)

\* _write_markdown: the characters written to the file
_write_markdown(title, video_url, transcript_data) ==
    HeadingMark \o title \o <<10, 10>>
    \o UrlLabel \o <<32, 91>> \o video_url \o <<93, 40>> \o video_url \o <<41, 10, 10>>
    \o TranscriptHeading \o <<10, 10>>
    \o EntryLines(transcript_data, 1)

\* save_transcript with fmt "md" on an empty file system where nothing of
\* the environment fails: the path it returns and what the file holds; None
\* for both when the file cannot be opened
SavedMarkdown(title, video_id, video_url, transcript_data) ==
    IF save_transcript(EmptyDir, Environment("clean", FmtMd), title, video_id, FmtMd).ret = NoneVal
    THEN [path |-> NoneVal, content |-> NoneVal]
    ELSE [path    |-> SavePath(title, video_id, FmtMd),
          content |-> _write_markdown(IF NoTitle(title) THEN video_id ELSE title,
                                      video_url, transcript_data)]

\* The positions where a line of a file opened in text mode ends: at "\n",
\* and at a "\r" that no "\n" follows
LineEnds(s) ==
    {i \in 1..Len(s) : s[i] = 10 \/ (s[i] = 13 /\ ~(i < Len(s) /\ s[i + 1] = 10))}

LineStarts(s) ==
    (IF Len(s) > 0 THEN {1} ELSE {}) \cup {e + 1 : e \in {x \in LineEnds(s) : x < Len(s)}}

\* the line that starts at st, its ending translated to "\n"
LineAt(s, st) ==
    LET after == {e \in LineEnds(s) : e >= st}
    IN  IF after = {} THEN SubSeq(s, st, Len(s))
        ELSE LET e == CHOOSE x \in after : \A y \in after : x <= y
             IN  IF s[e] = 10 /\ e > st /\ s[e - 1] = 13
                 THEN SubSeq(s, st, e - 2) \o <<10>>
                 ELSE SubSeq(s, st, e - 1) \o <<10>>

\* f.readlines()
readlines(s) ==
    LET starts == LineStarts(s)
    IN  [k \in 1..Cardinality(starts) |->
            LineAt(s, CHOOSE x \in starts : Cardinality({y \in starts : y < x}) = k - 1)]

\* str.find(lit, from): the first position from p on where lit occurs, 0 if none
Find(s, lit, p) ==
    LET hits == {q \in p..Len(s) : OccursAt(s, lit, q)}
    IN  IF hits = {} THEN 0 ELSE CHOOSE q \in hits : \A r \in hits : q <= r

\* str.startswith(lit)
StartsWith(s, lit) == OccursAt(s, lit, 1)

\* os.path.basename(filepath).replace(".md", ""): occurrences of ".md" do
\* not overlap, so every one of them is removed
Stem(name) ==
    LET covered == {i \in 1..Len(name) :
                       \E p \in 1..i : i < p + Len(MdSuffix) /\ OccursAt(name, MdSuffix, p)}
        keep    == {i \in 1..Len(name) : i \notin covered}
    IN  [k \in 1..Cardinality(keep) |->
            name[CHOOSE i \in keep : Cardinality({j \in keep : j < i}) = k - 1]]

\* line.split(sep, 1) of an entry line, then the two strips
EntryOf(line, sep) ==
    LET p     == Find(line, sep, 1)
        parts == <<SubSeq(line, 1, p - 1), SubSeq(line, p + Len(sep), Len(line))>>
    IN  [timestamp |-> StripBy(parts[1], {96}), text |-> StripBy(parts[2], SpaceChars)]

\* the body of "for line in lines" of _combine_as_json
ParseLine(acc, raw) ==
    LET line == StripBy(raw, SpaceChars)
    IN  IF StartsWith(line, HeadingMark)
        THEN [acc EXCEPT !.title = SubSeq(line, 3, Len(line))]
        ELSE IF StartsWith(line, UrlLabel)
        THEN LET url_start == Find(line, Http, 1)
             IN  IF url_start = 0 THEN acc
                 ELSE LET found   == Find(line, <<41>>, url_start)
                          url_end == IF found = 0 THEN Len(line) + 1 ELSE found
                      IN  [acc EXCEPT !.video_url = SubSeq(line, url_start, url_end - 1)]
        ELSE IF StartsWith(line, <<96>>) /\ Find(line, EmSep, 1) # 0
        THEN [acc EXCEPT !.entries = Append(@, EntryOf(line, EmSep))]
        ELSE IF StartsWith(line, <<96>>) /\ Find(line, HySep, 1) # 0
        THEN [acc EXCEPT !.entries = Append(@, EntryOf(line, HySep))]
        ELSE acc

RECURSIVE ParseLines(_, _, _)
ParseLines(acc, lines, k) ==
    IF k > Len(lines) THEN acc ELSE ParseLines(ParseLine(acc, lines[k]), lines, k + 1)

\* _combine_as_json, for one file: the element it appends to "transcripts"
ParseMarkdown(path, content) ==
    ParseLines([title |-> Stem(basename(path)), video_url |-> << >>, entries |-> << >>],
               readlines(content), 1)

\* The titles and the entries of the round trip: texts with inner and outer
\* blanks, a line feed, a carriage return and a backtick; starts below and
\* above a minute and an hour (in milliseconds)
MarkdownTitles ==
    {<< >>, <<97>>, <<97, 32, 98>>, <<32, 97>>, <<97, 32>>, <<32>>, <<35, 32, 97>>,
     <<97, 10, 98>>, <<97, 46, 109, 100>>}

EntryTexts ==
    {<< >>, <<32>>, <<97>>, <<32, 97, 32, 98, 32>>, <<97, 10, 98>>, <<97, 13, 98>>,
     <<96, 97, 96>>}

EntryStarts == {0, 61500, 3725000}

MarkdownEntries == [text : EntryTexts, start : EntryStarts]

\* ------------------------------------------------------------------------
\* ytm/utils.py: get_transcript_files; ytm/search.py: search_transcripts
\* ------------------------------------------------------------------------
\* a < b in the order of sorted() on str: by code points, a prefix first
LessStr(a, b) ==
    \E k \in 1..(Len(a) + 1) :
        /\ k <= Len(b)
        /\ \A j \in 1..(k - 1) : a[j] = b[j]
        /\ (k = Len(a) + 1 \/ a[k] < b[k])

\* sorted(names)
SortedNames(names) ==
    [k \in 1..Cardinality(names) |->
        CHOOSE x \in names : Cardinality({y \in names : LessStr(y, x)}) = k - 1]

\* filename.endswith(".md")
EndsWithMd(name) == OccursAt(name, MdSuffix, Len(name) - Len(MdSuffix) + 1)

\* A directory: whether it is there, and its files as a function from their
\* names to what they hold.
\* get_transcript_files: the names ending in ".md", sorted
get_transcript_files(dir) ==
    IF ~dir.exists THEN << >>
    ELSE SortedNames({n \in DOMAIN dir.files : EndsWithMd(n)})

\* str.rstrip()
RStrip(s) ==
    LET keep == {i \in 1..Len(s) : s[i] \notin SpaceChars}
    IN  IF keep = {} THEN << >>
        ELSE SubSeq(s, 1, CHOOSE i \in keep : \A j \in keep : j <= i)

\* the case folding of re.IGNORECASE, on ASCII letters
Fold(c) == IF c \in 65..90 THEN c + 32 ELSE c

FoldStr(s) == [i \in 1..Len(s) |-> Fold(s[i])]

\* re.compile(re.escape(keyword), flags).search(line)
PatternSearch(keyword, case_sensitive, line) ==
    IF case_sensitive
    THEN \E p \in 1..Len(line) : OccursAt(line, keyword, p)
    ELSE \E p \in 1..Len(line) : OccursAt(FoldStr(line), FoldStr(keyword), p)

\* not keyword or not keyword.strip()
BlankKeyword(keyword) == keyword = NoneVal \/ StripBy(keyword, SpaceChars) = << >>

\* search_transcripts: the title of a file, from its first line
SearchTitle(name, lines) ==
    IF lines # << >> /\ StartsWith(lines[1], HeadingMark)
    THEN StripBy(SubSeq(lines[1], 3, Len(lines[1])), SpaceChars)
    ELSE Stem(name)

\* _combine_as_text: the title of a file, from the first line that starts
\* with "# "
TextTitle(name, lines) ==
    LET marked == {k \in 1..Len(lines) : StartsWith(lines[k], HeadingMark)}
    IN  IF marked = {} THEN Stem(name)
        ELSE LET k == CHOOSE x \in marked : \A y \in marked : x <= y
             IN  StripBy(SubSeq(lines[k], 3, Len(lines[k])), SpaceChars)

\* get_stats: the title of a file, from the last line that starts with "# "
\* once stripped
StatsTitle(name, lines) ==
    LET marked == {k \in 1..Len(lines) : StartsWith(StripBy(lines[k], SpaceChars), HeadingMark)}
    IN  IF marked = {} THEN Stem(name)
        ELSE LET k        == CHOOSE x \in marked : \A y \in marked : y <= x
                 stripped == StripBy(lines[k], SpaceChars)
             IN  SubSeq(stripped, 3, Len(stripped))

\* list[start:end] for start >= 0: an end below zero counts from the end
Slice(list, start, end) ==
    LET n  == Len(list)
        e0 == IF end < 0 THEN (IF end + n < 0 THEN 0 ELSE end + n) ELSE (IF end > n THEN n ELSE end)
    IN  IF start >= e0 THEN << >> ELSE SubSeq(list, start + 1, e0)

\* a context of the lines before the match and the match only
SearchContextBefore(lines, i, context_lines) ==
    LET i0     == i - 1
        start  == IF i0 - context_lines > 0 THEN i0 - context_lines ELSE 0
        window == Slice(lines, start, i0 + 1)
    IN  [k \in 1..Len(window) |-> RStrip(window[k])]

\* the context of the match at line i (counted from 1):
\* [l.rstrip() for l in lines[max(0, i - context_lines):min(len(lines), i + context_lines + 1)]],
\* i there being counted from 0
SearchContext(lines, i, context_lines) ==
    LET i0     == i - 1
        start  == IF i0 - context_lines > 0 THEN i0 - context_lines ELSE 0
        end    == IF i0 + context_lines + 1 < Len(lines) THEN i0 + context_lines + 1 ELSE Len(lines)
        window == Slice(lines, start, end)
    IN  [k \in 1..Len(window) |-> RStrip(window[k])]

\* the result search_transcripts appends for line i (counted from 1) of a file
SearchResult(name, lines, i, context_lines) ==
    [file |-> name, title |-> SearchTitle(name, lines), line_number |-> i,
     line |-> RStrip(lines[i]), context |-> SearchContext(lines, i, context_lines)]

\* The lines files are made of: "a.", "A", "b"
CorpusLines == {<<97, 46>>, <<65>>, <<98>>}

\* what a file of the given lines holds
RECURSIVE Joined(_, _)
Joined(ls, k) == IF k > Len(ls) THEN << >> ELSE ls[k] \o <<10>> \o Joined(ls, k + 1)

\* a file of MaxLines + 1 lines, "A" between lines "b"
LongFile == Joined([k \in 1..(MaxLines + 1) |-> IF k = 2 THEN <<65>> ELSE <<98>>], 1)

FileContents ==
    {Joined(ls, 1) : ls \in UNION {[1..m -> CorpusLines] : m \in 0..MaxLines}} \cup {LongFile}

\* The lines of the files whose title is read: "# T", "# U", " # T", "a"
TitledLines == {<<35, 32, 84>>, <<35, 32, 85>>, <<32, 35, 32, 84>>, <<97>>}

TitledContents == {Joined(ls, 1) : ls \in UNION {[1..m -> TitledLines] : m \in 0..MaxLines}}

\* "a.md", "b.md", and "n.txt", which is no transcript file
MdNames == {<<97, 46, 109, 100>>, <<98, 46, 109, 100>>}
TxtName == <<110, 46, 116, 120, 116>>

NoDirectory == [exists |-> FALSE, files |-> [n \in {} |-> << >>]]

\* a directory that holds n.txt and the given Markdown files
DirectoryOf(md) ==
    [exists |-> TRUE,
     files  |-> [n \in DOMAIN md \cup {TxtName} |-> IF n = TxtName THEN <<97, 10>> ELSE md[n]]]

\* keywords "", "  ", "a", "."; the caps on the results
Keywords == {<< >>, <<32, 32>>, <<97>>, <<46>>}
Caps == {0, 1, 3}

\* context_lines: its default, and windows of one line and of three; the
\* narrow windows are run with the keyword "a" and the largest cap
DefaultContext == 2
Contexts == {0, 1, DefaultContext}

\* ------------------------------------------------------------------------
\* ytm/combiner.py: combine_transcripts with fmt "json"
\* ------------------------------------------------------------------------
\* what a file holds that cannot be read: open() or readlines() raises
Unreadable == <<-2>>

\* "_combined_transcripts.json"
CombinedJson ==
    <<95, 99, 111, 109, 98, 105, 110, 101, 100, 95, 116, 114, 97, 110, 115, 99, 114, 105,
      112, 116, 115, 46, 106, 115, 111, 110>>

\* an output_file outside the directory: "out.json"
CustomOutput == <<111, 117, 116, 46, 106, 115, 111, 110>>

\* "_combined_transcripts."
CombinedStem ==
    <<95, 99, 111, 109, 98, 105, 110, 101, 100, 95, 116, 114, 97, 110, 115, 99, 114, 105, 112, 116, 115, 46>>

\* f"_combined_transcripts.{extension}", extension being fmt if it is one of
\* "md", "json", "txt" and "md" otherwise
CombinedName(fmt) ==
    CombinedStem \o (IF fmt \in {FmtMd, FmtJson, FmtTxt} THEN fmt ELSE FmtMd)

\* output_file, or the default path in the directory
OutputFile(output_file, fmt) ==
    IF output_file = NoneVal \/ output_file = << >> THEN CombinedName(fmt) ELSE output_file

\* the formats of combine_transcripts
CombineFormats == {FmtMd, FmtJson, FmtTxt}

\* f.read() of a file opened in text mode: the lines, each line ending
\* translated to "\n"
RECURSIVE JoinLines(_, _)
JoinLines(lines, k) ==
    IF k > Len(lines) THEN << >> ELSE lines[k] \o JoinLines(lines, k + 1)

read(s) == JoinLines(readlines(s), 1)

\* the number of bytes of a text in UTF-8
Utf8Len(s) ==
    Len(s) + Cardinality({i \in 1..Len(s) : s[i] >= 128})
           + Cardinality({i \in 1..Len(s) : s[i] >= 2048})
           + Cardinality({i \in 1..Len(s) : s[i] >= 65536})

\* The output of _combine_as_markdown and _combine_as_text is a file opened
\* with open(output_file, "w", encoding="utf-8"): a text layer that holds
\* the text written until it has ChunkSize bytes, over a buffer of the
\* block size of the file system, over the file.  A reader of the file sees
\* the part that is on the disk.
ChunkSize == 8192

\* the block sizes of the file systems the output is written to
BlockSizes == {4096, 8192}

\* the output after open(): the file is emptied
Opened(blksize) == [disk |-> << >>, buffer |-> << >>, pending |-> << >>, blksize |-> blksize]

\* the buffer is given data: data that fits is kept; otherwise the buffer is
\* written to the file, and the data after it when it is larger than the buffer
BufferedWrite(out, data) ==
    IF Utf8Len(data) <= out.blksize - Utf8Len(out.buffer)
    THEN [out EXCEPT !.buffer = @ \o data]
    ELSE IF Utf8Len(data) > out.blksize
    THEN [out EXCEPT !.disk = @ \o out.buffer \o data, !.buffer = << >>]
    ELSE [out EXCEPT !.disk = @ \o out.buffer, !.buffer = data]

\* the text layer hands what it holds to the buffer
TextFlush(out) == [BufferedWrite(out, out.pending) EXCEPT !.pending = << >>]

\* out.write(text): what is held is handed on first when the text would
\* take it over ChunkSize, and again once ChunkSize is reached
TextWrite(out, text) ==
    LET o1 == IF out.pending # << >> /\ Utf8Len(out.pending) + Utf8Len(text) > ChunkSize
              THEN TextFlush(out) ELSE out
        o2 == [o1 EXCEPT !.pending = @ \o text]
    IN  IF Utf8Len(o2.pending) >= ChunkSize THEN TextFlush(o2) ELSE o2

\* the writes of a list of texts, from the k-th on
RECURSIVE TextWriteAll(_, _, _)
TextWriteAll(out, texts, k) ==
    IF k > Len(texts) THEN out ELSE TextWriteAll(TextWrite(out, texts[k]), texts, k + 1)

\* the end of "with open(...) as out": everything is on the disk
Closed(out) == out.disk \o out.buffer \o out.pending

\* what _combine_as_markdown writes before the loop:
\* "# Combined Transcripts\n\n", "**Total videos:** n\n\n", "---\n\n"
MarkdownHeader(n) ==
    << <<35, 32, 67, 111, 109, 98, 105, 110, 101, 100, 32, 84, 114, 97, 110, 115, 99, 114, 105, 112, 116, 115, 10, 10>>,
       <<42, 42, 84, 111, 116, 97, 108, 32, 118, 105, 100, 101, 111, 115, 58, 42, 42, 32>> \o Dec(n) \o <<10, 10>>,
       <<45, 45, 45, 10, 10>> >>

\* what is kept in the directory for a JSON artifact: its content is co_artifact
Structured == <<-3>>

\* the element of the artifact for one file that was read
CombinedItem(fmt, name, content) ==
    IF fmt = FmtJson THEN ParseMarkdown(name, content)
    ELSE IF fmt = FmtTxt
    THEN LET entries == ParseMarkdown(name, content).entries
         IN  [title |-> TextTitle(name, readlines(content)),
              texts |-> [k \in 1..Len(entries) |-> entries[k].text]]
    ELSE read(content)

\* the writes of one pass of the loop: for Markdown the text and "\n\n---\n\n";
\* for text "\n\n=== title ===\n\n", each entry's text with a space, "\n"
PassWrites(fmt, item) ==
    IF fmt = FmtTxt
    THEN << <<10, 10, 61, 61, 61, 32>> \o item.title \o <<32, 61, 61, 61, 10, 10>> >>
         \o [k \in 1..Len(item.texts) |-> item.texts[k] \o <<32>>]
         \o << <<10>> >>
    ELSE <<item, <<10, 10, 45, 45, 45, 10, 10>> >>

\* "if not output_file": the artifact goes to the default path in the directory
DefaultOutput(args) == args.output_file = NoneVal \/ args.output_file = << >>

\* no artifact
NoArtifact == [path |-> NoneVal, total_videos |-> -1, transcripts |-> << >>]

\* the files of the corpus to combine: "B.md", "a.md", "b.md"
CombineNames == {<<66, 46, 109, 100>>} \cup MdNames

\* what they hold: a saved transcript with an entry, one without entries,
\* a file without a heading, and a file that cannot be read
CombineContents ==
    {SavedMarkdown(TitleA, VideoId(1), VideoUrl(VideoId(1)),
                   <<[text |-> <<97>>, start |-> 61500]>>).content,
     SavedMarkdown(TitleB, VideoId(2), VideoUrl(VideoId(2)), << >>).content,
     <<98, 10>>,
     Unreadable}

\* a text of n letters "x" under a heading: "# B\n", the letters, "\n"
LongText(n) == <<35, 32, 66, 10>> \o [i \in 1..n |-> 120] \o <<10>>

\* the lengths of the long files: two of the first fill the text layer, one
\* of the second is more than it holds
LongLens == {5000, 9000}

\* a file with the line endings "\r" and "\r\n": "x\ry\r\nz\n"
ReturnsContent == <<120, 13, 121, 13, 10, 122, 10>>

\* the directories with long files and with the line endings
LongDirectories ==
    {DirectoryOf([n \in S |-> LongText(len)]) : S \in (SUBSET MdNames) \ {{}}, len \in LongLens}
    \cup {DirectoryOf([n \in {<<97, 46, 109, 100>>} |-> ReturnsContent])}

\* ------------------------------------------------------------------------
\* ytm/fetcher.py: _srt_time and _write_srt
\* ------------------------------------------------------------------------
\* The times are Python floats, IEEE 754 doubles.  A double x >= 0 below
\* 2^31 that is a multiple of 2^-64 is held as the number x * 2^64, written
\* in base 2^16 with the least significant digit first.
Base == 65536
Limbs == 6
FracLimbs == 4
Mantissa == 53

\* 2^n, for n up to 16
Pow2(n) ==
    <<1, 2, 4, 8, 16, 32, 64, 128, 256, 512, 1024, 2048, 4096, 8192, 16384, 32768,
      65536>>[n + 1]

\* bit i of a number, the least significant being bit 0
BitOf(n, i) == (n[(i \div 16) + 1] \div Pow2(i % 16)) % 2

\* the number of bits of a number
BitLen(n) ==
    LET used == {j \in 1..Limbs : n[j] # 0}
    IN  IF used = {} THEN 0
        ELSE LET top == CHOOSE j \in used : \A k \in used : k <= j
             IN  16 * (top - 1) + (CHOOSE b \in 1..16 : Pow2(b - 1) <= n[top] /\ n[top] < Pow2(b))

\* a + b
RECURSIVE CarryInto(_, _, _)
CarryInto(a, b, j) ==
    IF j = 1 THEN 0 ELSE (a[j - 1] + b[j - 1] + CarryInto(a, b, j - 1)) \div Base

Plus(a, b) == [j \in 1..Limbs |-> (a[j] + b[j] + CarryInto(a, b, j)) % Base]

\* a * c, for a small c
RECURSIVE MulCarryInto(_, _, _)
MulCarryInto(a, c, j) ==
    IF j = 1 THEN 0 ELSE (a[j - 1] * c + MulCarryInto(a, c, j - 1)) \div Base

Times(a, c) == [j \in 1..Limbs |-> (a[j] * c + MulCarryInto(a, c, j)) % Base]

\* the remainder that enters digit j in the long division of a by c
RECURSIVE RemInto(_, _, _)
RemInto(a, c, j) ==
    IF j = Limbs THEN 0 ELSE (RemInto(a, c, j + 1) * Base + a[j + 1]) % c

\* a \div c, and whether a remainder is left
Quotient(a, c) == [j \in 1..Limbs |-> (RemInto(a, c, j) * Base + a[j]) \div c]

Inexact(a, c) == (RemInto(a, c, 1) * Base + a[1]) % c # 0

\* The rounding of a result to a double: to 53 significant bits, to the
\* nearest, ties to even; sticky tells that the exact result lies above n.
RoundToDouble(n, sticky) ==
    LET q == BitLen(n) - Mantissa
    IN  IF q <= 0 THEN n
        ELSE LET guard == BitOf(n, q - 1) = 1
                 rest  == sticky \/ \E i \in 0..(q - 2) : BitOf(n, i) = 1
                 up    == guard /\ (rest \/ BitOf(n, q) = 1)
                 cut   == [j \in 1..Limbs |->
                              IF 16 * j <= q THEN 0
                              ELSE IF 16 * (j - 1) >= q THEN n[j]
                              ELSE (n[j] \div Pow2(q - 16 * (j - 1))) * Pow2(q - 16 * (j - 1))]
                 one   == [j \in 1..Limbs |->
                              IF j = (q \div 16) + 1 THEN Pow2(q % 16) ELSE 0]
             IN  IF up THEN Plus(cut, one) ELSE cut

\* the whole number k as a double
FromInt(k) == [j \in 1..Limbs |->
                  IF j = FracLimbs + 1 THEN k % Base
                  ELSE IF j = FracLimbs + 2 THEN k \div Base
                  ELSE 0]

\* the double of millis / 1000, as the float literal or the source's value of
\* a time of so many milliseconds
Seconds(millis) == RoundToDouble(Quotient(FromInt(millis), 1000), Inexact(FromInt(millis), 1000))

\* int(x), and x - int(x), which is exact
IntPart(x) == x[FracLimbs + 1] + Base * x[FracLimbs + 2]

FracPart(x) == [j \in 1..Limbs |-> IF j <= FracLimbs THEN x[j] ELSE 0]

\* x + y and x * 1000 in floating point
FloatAdd(x, y) == RoundToDouble(Plus(x, y), FALSE)

FloatTimes1000(x) == RoundToDouble(Times(x, 1000), FALSE)

\* f"{n:03d}"
Dec03(n) == IF n < 100 THEN <<48>> \o Dec02(n) ELSE Dec(n)

\* _srt_time, of a double
_srt_time(seconds) ==
    LET hours   == IntPart(seconds) \div 3600
        minutes == (IntPart(seconds) % 3600) \div 60
        secs    == IntPart(seconds) % 60
        millis  == IntPart(FloatTimes1000(FracPart(seconds)))
    IN  Dec02(hours) \o <<58>> \o Dec02(minutes) \o <<58>> \o Dec02(secs) \o <<44>>
        \o Dec03(millis)

\* an entry without the key "duration"
NoDuration == -1

\* " --> "
SrtArrow == <<32, 45, 45, 62, 32>>

\* a writer whose skipped entries take a number too
RECURSIVE SrtCuesByPosition(_, _, _)
SrtCuesByPosition(transcript_data, k, index) ==
    IF k > Len(transcript_data) THEN << >>
    ELSE LET entry    == transcript_data[k]
             text     == EntryText(entry.text)
             start    == Seconds(entry.start)
             duration == IF entry.duration = NoDuration THEN FromInt(2)
                         ELSE Seconds(entry.duration)
             end      == FloatAdd(start, duration)
         IN  IF text = << >> THEN SrtCuesByPosition(transcript_data, k + 1, index + 1)
             ELSE Dec(index) \o <<10>>
                  \o _srt_time(start) \o SrtArrow \o _srt_time(end) \o <<10>>
                  \o text \o <<10, 10>>
                  \o SrtCuesByPosition(transcript_data, k + 1, index + 1)

\* _write_srt: the characters written for the entries from the k-th on,
\* index being the number of the next cue; start and duration are given in
\* milliseconds
RECURSIVE SrtCues(_, _, _)
SrtCues(transcript_data, k, index) ==
    IF k > Len(transcript_data) THEN << >>
    ELSE LET entry    == transcript_data[k]
             text     == EntryText(entry.text)
             start    == Seconds(entry.start)
             duration == IF entry.duration = NoDuration THEN FromInt(2)
                         ELSE Seconds(entry.duration)
             end      == FloatAdd(start, duration)
         IN  IF text = << >> THEN SrtCues(transcript_data, k + 1, index)
             ELSE Dec(index) \o <<10>>
                  \o _srt_time(start) \o SrtArrow \o _srt_time(end) \o <<10>>
                  \o text \o <<10, 10>>
                  \o SrtCues(transcript_data, k + 1, index + 1)

_write_srt(transcript_data) == SrtCues(transcript_data, 1, 1)

\* The entries written as SRT: texts "a" and " ", starts of 5, 1.001 and
\* 3725.25 seconds, a duration of 2.5 seconds and none
SrtTexts == {<<97>>, <<32>>}
SrtStarts == {5000, 1001, 3725250}
SrtDurations == {NoDuration, 2500}

SrtEntries == [text : SrtTexts, start : SrtStarts, duration : SrtDurations]

VARIABLES
    cf_pc, cf_in, cf_out, cf_out2,      \* the sanitizer applied once and twice
    gt_pc, gt_src, gt_langs, gt_res,    \* one call of get_transcript
    fc_scn,                             \* a channel fetch: what is run, and where
    fc_pc, fc_run, fc_client, fc_todo,  \* its position, and the locals of the run
    fc_idx, fc_results, fc_log,
    fc_fs,                              \* the file system
    fc_first, fc_exit,                  \* the first run's tally; the exit status
    fv_pc, fv_scn, fv_res, fv_exit,     \* a single-video fetch
    rt_pc, rt_title, rt_entries,        \* a Markdown file saved and parsed
    rt_file, rt_parsed,
    ev_pc, ev_scn, ev_in, ev_out,       \* one call of extract_video_id
    se_pc, se_dir, se_args,             \* one call of search_transcripts
    se_files, se_file, se_lines, se_line, se_results,
    co_pc, co_dir, co_args,             \* one call of combine_transcripts
    co_files, co_idx, co_transcripts, co_artifact, co_ret,
    co_run, co_first,                   \* the run, and the first run's artifact
    co_out,                             \* the output of the Markdown and text artifacts
    sr_pc, sr_entries, sr_out,          \* an SRT file written
    tt_pc, tt_name, tt_content,         \* one file and the titles reported for it
    tt_titles

cleanVars == <<cf_pc, cf_in, cf_out, cf_out2>>
selectorVars == <<gt_pc, gt_src, gt_langs, gt_res>>
channelVars == <<fc_scn, fc_pc, fc_run, fc_client, fc_todo, fc_idx, fc_results,
                 fc_log, fc_fs, fc_first, fc_exit>>

singleVars == <<fv_pc, fv_scn, fv_res, fv_exit>>

markdownVars == <<rt_pc, rt_title, rt_entries, rt_file, rt_parsed>>

extractVars == <<ev_pc, ev_scn, ev_in, ev_out>>

searchVars == <<se_pc, se_dir, se_args, se_files, se_file, se_lines, se_line, se_results>>

combineVars == <<co_pc, co_dir, co_args, co_files, co_idx, co_transcripts, co_artifact, co_ret,
                 co_run, co_first, co_out>>

srtVars == <<sr_pc, sr_entries, sr_out>>

titleVars == <<tt_pc, tt_name, tt_content, tt_titles>>

vars == <<cleanVars, selectorVars, channelVars, singleVars, markdownVars, extractVars, searchVars, combineVars, srtVars, titleVars>>

\* a component that is not running
NoResult == [ret |-> NoneEntries, raised |-> "none", calls |-> << >>]

AnySource == CHOOSE src \in Sources : TRUE

IdleScenario ==
    [listing |-> "fail", channel |-> << >>, skip |-> TRUE, limit |-> 0, fmt |-> FmtMd,
     api |-> "nokey", env |-> Environment("clean", FmtMd)]

CleanIdle ==
    /\ cf_pc = "idle"
    /\ cf_in = NoneVal
    /\ cf_out = NoneVal
    /\ cf_out2 = NoneVal

SelectorIdle ==
    /\ gt_pc = "idle"
    /\ gt_src = AnySource
    /\ gt_langs = NoneList
    /\ gt_res = NoResult

ChannelIdle ==
    /\ fc_scn = IdleScenario
    /\ fc_pc = "idle"
    /\ fc_run = 0
    /\ fc_client = FALSE
    /\ fc_todo = << >>
    /\ fc_idx = 0
    /\ fc_results = ZeroTally
    /\ fc_log = << >>
    /\ fc_fs = EmptyDir
    /\ fc_first = ZeroTally
    /\ fc_exit = -1

NoSingleResult ==
    [ret |-> NoneVal, video |-> NoneVal, title |-> NoneVal, calls |-> << >>, fs |-> EmptyDir]

IdleSingle ==
    [input |-> << >>, api |-> "nokey", scrape |-> "none", scraped |-> TitleEmpty,
     src |-> SrcDisabled, fmt |-> FmtMd, env |-> Environment("clean", FmtMd)]

SingleIdle ==
    /\ fv_pc = "idle"
    /\ fv_scn = IdleSingle
    /\ fv_res = NoSingleResult
    /\ fv_exit = -1

NoFile == [path |-> << >>, content |-> << >>]

NoParse == [title |-> << >>, video_url |-> << >>, entries |-> << >>]

MarkdownIdle ==
    /\ rt_pc = "idle"
    /\ rt_title = << >>
    /\ rt_entries = << >>
    /\ rt_file = NoFile
    /\ rt_parsed = NoParse

NoUrl == [prefix |-> << >>, shape |-> "bare", run |-> << >>, suffix |-> << >>]

ExtractIdle ==
    /\ ev_pc = "idle"
    /\ ev_scn = NoUrl
    /\ ev_in = NoneVal
    /\ ev_out = NoneVal

SearchIdle ==
    /\ se_pc = "idle"
    /\ se_dir = NoDirectory
    /\ se_args = [keyword |-> << >>, case_sensitive |-> FALSE, context_lines |-> 0, max_results |-> 0]
    /\ se_files = << >>
    /\ se_file = 0
    /\ se_lines = << >>
    /\ se_line = 0
    /\ se_results = << >>

CombineIdle ==
    /\ co_pc = "idle"
    /\ co_dir = NoDirectory
    /\ co_args = [output_file |-> NoneVal, fmt |-> FmtMd, writable |-> TRUE, blksize |-> 4096]
    /\ co_files = << >>
    /\ co_idx = 0
    /\ co_transcripts = << >>
    /\ co_artifact = NoArtifact
    /\ co_ret = NoneVal
    /\ co_run = 0
    /\ co_first = NoArtifact
    /\ co_out = Opened(4096)

SrtIdle ==
    /\ sr_pc = "idle"
    /\ sr_entries = << >>
    /\ sr_out = << >>

NoTitles == [search |-> NoneVal, json |-> NoneVal, txt |-> NoneVal, stats |-> NoneVal]

TitleIdle ==
    /\ tt_pc = "idle"
    /\ tt_name = << >>
    /\ tt_content = << >>
    /\ tt_titles = NoTitles

\* ------------------------------------------------------------------------
\* The sanitizer, applied to a title and to its own result
\* ------------------------------------------------------------------------
CleanInit ==
    /\ cf_pc = "start"
    /\ cf_in \in CleanInputs
    /\ cf_out = NoneVal
    /\ cf_out2 = NoneVal
    /\ SelectorIdle
    /\ ChannelIdle
    /\ SingleIdle
    /\ MarkdownIdle
    /\ ExtractIdle
    /\ SearchIdle
    /\ CombineIdle
    /\ SrtIdle
    /\ TitleIdle

\* result = clean_filename(x)
CleanOnce ==
    /\ cf_pc = "start"
    /\ cf_out' = clean_filename(cf_in)
    /\ cf_pc' = "once"
    /\ UNCHANGED <<cf_in, cf_out2, selectorVars, channelVars, singleVars, markdownVars, extractVars, searchVars, combineVars, srtVars, titleVars>>

\* clean_filename(result)
CleanTwice ==
    /\ cf_pc = "once"
    /\ cf_out2' = clean_filename(cf_out)
    /\ cf_pc' = "twice"
    /\ UNCHANGED <<cf_in, cf_out, selectorVars, channelVars, singleVars, markdownVars, extractVars, searchVars, combineVars, srtVars, titleVars>>

CleanNext == CleanOnce \/ CleanTwice

SpecClean == CleanInit /\ [][CleanNext]_vars

\* ------------------------------------------------------------------------
\* The selector: one call of get_transcript on any source and language list
\* ------------------------------------------------------------------------
SelectorInit ==
    /\ gt_pc = "start"
    /\ gt_src \in Sources
    /\ gt_langs \in LanguageLists
    /\ gt_res = NoResult
    /\ CleanIdle
    /\ ChannelIdle
    /\ SingleIdle
    /\ MarkdownIdle
    /\ ExtractIdle
    /\ SearchIdle
    /\ CombineIdle
    /\ SrtIdle
    /\ TitleIdle

GetTranscriptCall ==
    /\ gt_pc = "start"
    /\ gt_res' = get_transcript(gt_src, gt_langs)
    /\ gt_pc' = "done"
    /\ UNCHANGED <<gt_src, gt_langs, cleanVars, channelVars, singleVars, markdownVars, extractVars, searchVars, combineVars, srtVars, titleVars>>

SelectorNext == GetTranscriptCall

SpecSelector == SelectorInit /\ [][SelectorNext]_vars

\* ------------------------------------------------------------------------
\* The channel fetch: run_fetch calls fetch_channel_transcripts, twice in a
\* row on the same channel, with the same arguments and output directory
\* ------------------------------------------------------------------------
\* What is run: the listing get_channel_videos returns ("fail" for None), the
\* arguments, whether an API key is given and the client can be built, and
\* the environment.  The limit and the environment are varied without an API
\* key and in Markdown; the API and the other formats are run without limit in
\* a clean environment.
Scenario(c, sk, l, f, api, e) ==
    [listing |-> "ok", channel |-> c, skip |-> sk, limit |-> l, fmt |-> f,
     api |-> api, env |-> Environment(e, f)]

FailedListing(sk, l) ==
    [listing |-> "fail", channel |-> << >>, skip |-> sk, limit |-> l, fmt |-> FmtMd,
     api |-> "nokey", env |-> Environment("clean", FmtMd)]

IsChannelScenario(scn) ==
    \/ \E c \in Channels({NoneVal}), sk \in BOOLEAN, l \in Limits :
           scn = Scenario(c, sk, l, FmtMd, "nokey", "clean")
    \/ \E c \in Channels({NoneVal}), sk \in BOOLEAN, e \in EnvKinds \ {"clean"} :
           scn = Scenario(c, sk, 0, FmtMd, "nokey", e)
    \/ \E sk \in BOOLEAN, l \in Limits :
           scn = FailedListing(sk, l)
    \/ \E c \in Channels({NoneVal}), sk \in BOOLEAN :
           scn = Scenario(c, sk, 0, FmtMd, "buildfail", "clean")
    \/ \E c \in Channels({NoneVal, TitleB}), sk \in BOOLEAN :
           scn = Scenario(c, sk, 0, FmtMd, "client", "clean")
    \/ \E c \in Channels({NoneVal}), sk \in BOOLEAN, f \in {FmtJson, FmtTxt, FmtSrt, FmtPdf} :
           scn = Scenario(c, sk, 0, f, "nokey", "clean")
    \/ \E c \in Channels({NoneVal, TitleB}), l \in {1, 2} :
           scn = Scenario(c, TRUE, l, FmtMd, "client", "clean")
    \/ \E c \in Channels({TitleEmpty}), sk \in BOOLEAN :
           scn = Scenario(c, sk, 0, FmtMd, "client", "clean")
    \/ \E c \in Channels({TitleSlash, TitleRoot, TitleInto}), sk \in BOOLEAN :
           Len(c) = 1 /\ scn = Scenario(c, sk, 0, FmtMd, "client", "clean")
    \/ \E c \in Channels({TitleSlash}), sk \in BOOLEAN :
           Len(c) = 1 /\ scn = Scenario(c, sk, 0, FmtMd, "client", "subdirectory")
    \/ \E c \in Channels({TitleInto}), sk \in BOOLEAN :
           Len(c) = 1 /\ scn = Scenario(c, sk, 0, FmtMd, "client", "preexisting")
    \/ \E c \in Channels({NoneVal}), sk \in BOOLEAN :
           Len(c) = 1 /\ scn = Scenario(c, sk, 0, FmtMd, "nokey", "untitled")

ChannelInit ==
    /\ IsChannelScenario(fc_scn)
    /\ fc_pc = "start"
    /\ fc_run = 1
    /\ fc_client = FALSE
    /\ fc_todo = << >>
    /\ fc_idx = 0
    /\ fc_results = ZeroTally
    /\ fc_log = << >>
    /\ fc_fs = InitialFiles(fc_scn.env)
    /\ fc_first = ZeroTally
    /\ fc_exit = -1
    /\ CleanIdle
    /\ SelectorIdle
    /\ SingleIdle
    /\ MarkdownIdle
    /\ ExtractIdle
    /\ SearchIdle
    /\ CombineIdle
    /\ SrtIdle
    /\ TitleIdle

Event(op, video, path) == [op |-> op, video |-> video, path |-> path]

\* One pass of the loop of fetch_channel_transcripts over a video: the
\* file system afterwards, the counter incremented, and what was done, in order.
ProcessVideo(fs, scn, video, video_id, client) ==
    LET title    == ResolvedTitle(video, client)
        lookup   == IF client THEN <<Event("title_api", video_id, NoneVal)>> ELSE << >>
        checked  == IF scn.skip
                    THEN <<Event("exists", video_id,
                                 join(OutputDir, FileName(title, scn.fmt)))>>
                    ELSE << >>
    IN  IF scn.skip /\ file_already_exists(fs, title, scn.fmt)
        THEN [fs |-> fs, tally |-> "skipped", events |-> lookup \o checked]
        ELSE LET got     == get_transcript(video.src, NoneList)
                 fetched == <<Event("get_transcript", video_id, NoneVal)>>
             IN  IF got.ret # NoneEntries /\ got.ret # << >>
                 THEN LET saved == save_transcript(fs, scn.env, title, video_id, scn.fmt)
                          wrote == IF saved.opened
                                   THEN <<Event("write", video_id, saved.path)>>
                                   ELSE << >>
                      IN  [fs     |-> saved.fs,
                           tally  |-> IF saved.ret # NoneVal THEN "success" ELSE "failed",
                           events |-> lookup \o checked \o fetched \o wrote]
                 ELSE [fs |-> fs, tally |-> "failed",
                       events |-> lookup \o checked \o fetched]

\* fetch_channel_transcripts up to its loop: the client, the listing, the limit
FetchStart ==
    /\ fc_pc = "start"
    /\ fc_client' = (fc_scn.api = "client")
    /\ fc_results' = ZeroTally
    /\ fc_idx' = 0
    /\ IF fc_scn.listing = "fail" \/ fc_scn.channel = << >>
       THEN /\ fc_todo' = << >>
            /\ fc_pc' = "returned"
       ELSE /\ fc_todo' = Truncate(fc_scn.channel, fc_scn.limit)
            /\ fc_pc' = "loop"
    /\ UNCHANGED <<fc_scn, fc_run, fc_log, fc_fs, fc_first, fc_exit, cleanVars, selectorVars, singleVars, markdownVars, extractVars, searchVars, combineVars, srtVars, titleVars>>

\* A loop that forgets results["failed"] += 1: a video that fails is not counted
FetchVideoFailedUncounted ==
    /\ fc_pc = "loop"
    /\ fc_idx < Len(fc_todo)
    /\ \E step \in {ProcessVideo(fc_fs, fc_scn, fc_todo[fc_idx + 1], VideoId(fc_idx + 1),
                                  fc_client)} :
           /\ fc_fs' = step.fs
           /\ fc_results' = IF step.tally = "failed" THEN fc_results
                            ELSE [fc_results EXCEPT ![step.tally] = @ + 1]
           /\ fc_log' = fc_log \o step.events
                                \o <<Event(step.tally, VideoId(fc_idx + 1), NoneVal)>>
           /\ fc_idx' = fc_idx + 1
    /\ UNCHANGED <<fc_scn, fc_pc, fc_run, fc_client, fc_todo, fc_first, fc_exit,
                   cleanVars, selectorVars, singleVars, markdownVars, extractVars, searchVars, combineVars, srtVars, titleVars>>

\* one pass of the loop
FetchVideo ==
    /\ fc_pc = "loop"
    /\ fc_idx < Len(fc_todo)
    /\ \E step \in {ProcessVideo(fc_fs, fc_scn, fc_todo[fc_idx + 1], VideoId(fc_idx + 1),
                                  fc_client)} :
           /\ fc_fs' = step.fs
           /\ fc_results' = [fc_results EXCEPT ![step.tally] = @ + 1]
           /\ fc_log' = fc_log \o step.events
                                \o <<Event(step.tally, VideoId(fc_idx + 1), NoneVal)>>
           /\ fc_idx' = fc_idx + 1
    /\ UNCHANGED <<fc_scn, fc_pc, fc_run, fc_client, fc_todo, fc_first, fc_exit,
                   cleanVars, selectorVars, singleVars, markdownVars, extractVars, searchVars, combineVars, srtVars, titleVars>>

\* the loop is over: return results
FetchReturn ==
    /\ fc_pc = "loop"
    /\ fc_idx = Len(fc_todo)
    /\ fc_pc' = "returned"
    /\ UNCHANGED <<fc_scn, fc_run, fc_client, fc_todo, fc_idx, fc_results, fc_log,
                   fc_fs, fc_first, fc_exit, cleanVars, selectorVars, singleVars, markdownVars, extractVars, searchVars, combineVars, srtVars, titleVars>>

\* run_fetch prints the tally and the process ends
RunFetchExit ==
    /\ fc_pc = "returned"
    /\ fc_exit' = RunFetchChannelExit(fc_results)
    /\ fc_pc' = "exited"
    /\ UNCHANGED <<fc_scn, fc_run, fc_client, fc_todo, fc_idx, fc_results, fc_log,
                   fc_fs, fc_first, cleanVars, selectorVars, singleVars, markdownVars, extractVars, searchVars, combineVars, srtVars, titleVars>>

\* the same command is run again, on the directory the first run left
RunAgain ==
    /\ fc_pc = "exited"
    /\ fc_run = 1
    /\ fc_run' = 2
    /\ fc_first' = fc_results
    /\ fc_pc' = "start"
    /\ fc_client' = FALSE
    /\ fc_todo' = << >>
    /\ fc_idx' = 0
    /\ fc_results' = ZeroTally
    /\ fc_log' = << >>
    /\ fc_exit' = -1
    /\ UNCHANGED <<fc_scn, fc_fs, cleanVars, selectorVars, singleVars, markdownVars, extractVars, searchVars, combineVars, srtVars, titleVars>>

ChannelNext == FetchStart \/ FetchVideo \/ FetchReturn \/ RunFetchExit \/ RunAgain

SpecChannel == ChannelInit /\ [][ChannelNext]_vars

\* ------------------------------------------------------------------------
\* The single-video fetch: run_fetch calls fetch_single_video_transcript
\* ------------------------------------------------------------------------
\* the environments of a single fetch: nothing in the way, or the file of the
\* title "B", of the title "A" or of the id cannot be opened
SingleEnvs ==
    {Environment("clean", FmtMd)} \cup
    {[pre |-> {}, unopenable |-> {join(OutputDir, FileName(t, FmtMd))}, writefail |-> {}] :
         t \in {TitleA, TitleB, VideoId(1)}}

SingleInit ==
    /\ fv_pc = "start"
    /\ \E i \in SingleInputs, a \in ApiOutcomes, sc \in ScrapeOutcomes, t \in ScrapedTitles,
          src \in ChannelSources, e \in SingleEnvs :
           fv_scn = [input |-> i, api |-> a, scrape |-> sc, scraped |-> t, src |-> src,
                     fmt |-> FmtMd, env |-> e]
    /\ fv_res = NoSingleResult
    /\ fv_exit = -1
    /\ CleanIdle
    /\ SelectorIdle
    /\ ChannelIdle
    /\ MarkdownIdle
    /\ ExtractIdle
    /\ SearchIdle
    /\ CombineIdle
    /\ SrtIdle
    /\ TitleIdle

\* run_fetch with args.video: "if args.video:" takes the video branch for a
\* video that is not the empty string
FetchSingle ==
    /\ fv_pc = "start"
    /\ fv_scn.input # << >>
    /\ fv_res' = fetch_single_video_transcript(EmptyDir, fv_scn)
    /\ fv_pc' = "returned"
    /\ UNCHANGED <<fv_scn, fv_exit, cleanVars, selectorVars, channelVars, markdownVars, extractVars, searchVars, combineVars, srtVars, titleVars>>

RunFetchSingleExit ==
    /\ fv_pc = "returned"
    /\ fv_exit' = RunFetchVideoExit(fv_res.ret)
    /\ fv_pc' = "exited"
    /\ UNCHANGED <<fv_scn, fv_res, cleanVars, selectorVars, channelVars, markdownVars, extractVars, searchVars, combineVars, srtVars, titleVars>>

\* run_fetch with the empty string for args.video: the else branch runs
\* fetch_channel_transcripts, fetch_single_video_transcript is not called,
\* and the run ends as every channel run does
RunFetchNoVideo ==
    /\ fv_pc = "start"
    /\ fv_scn.input = << >>
    /\ fv_exit' = RunFetchChannelExit(fv_res)
    /\ fv_pc' = "exited"
    /\ UNCHANGED <<fv_scn, fv_res, cleanVars, selectorVars, channelVars, markdownVars, extractVars, searchVars, combineVars, srtVars, titleVars>>

SingleNext == FetchSingle \/ RunFetchSingleExit \/ RunFetchNoVideo

SpecSingle == SingleInit /\ [][SingleNext]_vars

\* ------------------------------------------------------------------------
\* Specification: a Markdown file is saved and then parsed by the combiner
\* ------------------------------------------------------------------------
SeqsUpTo(S, n) == UNION {[1..m -> S] : m \in 0..n}

MarkdownInit ==
    /\ rt_pc = "start"
    /\ rt_title \in MarkdownTitles
    /\ rt_entries \in SeqsUpTo(MarkdownEntries, MaxEntries)
    /\ rt_file = NoFile
    /\ rt_parsed = NoParse
    /\ CleanIdle
    /\ SelectorIdle
    /\ ChannelIdle
    /\ SingleIdle
    /\ ExtractIdle
    /\ SearchIdle
    /\ CombineIdle
    /\ SrtIdle
    /\ TitleIdle

SaveMarkdown ==
    /\ rt_pc = "start"
    /\ rt_file' = SavedMarkdown(rt_title, VideoId(1), VideoUrl(VideoId(1)), rt_entries)
    /\ rt_pc' = "saved"
    /\ UNCHANGED <<rt_title, rt_entries, rt_parsed, cleanVars, selectorVars, channelVars, singleVars, extractVars, searchVars, combineVars, srtVars, titleVars>>

CombineAsJson ==
    /\ rt_pc = "saved"
    /\ rt_parsed' = ParseMarkdown(rt_file.path, rt_file.content)
    /\ rt_pc' = "parsed"
    /\ UNCHANGED <<rt_title, rt_entries, rt_file, cleanVars, selectorVars, channelVars, singleVars, extractVars, searchVars, combineVars, srtVars, titleVars>>

MarkdownNext == SaveMarkdown \/ CombineAsJson

SpecMarkdown == MarkdownInit /\ [][MarkdownNext]_vars

\* ------------------------------------------------------------------------
\* Specification: one call of extract_video_id
\* ------------------------------------------------------------------------
ExtractInit ==
    /\ ev_pc = "start"
    /\ \/ /\ ev_scn = NoUrl
          /\ ev_in \in {NoneVal, << >>, <<32, 32>>}
       \/ /\ \E pre \in UrlPrefixes, sh \in UrlShapes \ {"bare"}, b \in RunBases,
                n \in RunLens, suf \in UrlSuffixes :
                 ev_scn = [prefix |-> pre, shape |-> sh, run |-> RunOf(b, n), suffix |-> suf]
          /\ ev_in = UrlOf(ev_scn)
       \/ /\ \E b \in RunBases, n \in RunLens :
                 ev_scn = [prefix |-> << >>, shape |-> "bare", run |-> RunOf(b, n),
                           suffix |-> << >>]
          /\ ev_in \in {UrlOf(ev_scn), <<32>> \o UrlOf(ev_scn) \o <<10>>}
    /\ ev_out = NoneVal
    /\ CleanIdle
    /\ SelectorIdle
    /\ ChannelIdle
    /\ SingleIdle
    /\ MarkdownIdle
    /\ SearchIdle
    /\ CombineIdle
    /\ SrtIdle
    /\ TitleIdle

ExtractCall ==
    /\ ev_pc = "start"
    /\ ev_out' = extract_video_id(ev_in)
    /\ ev_pc' = "done"
    /\ UNCHANGED <<ev_scn, ev_in, cleanVars, selectorVars, channelVars, singleVars, markdownVars, searchVars, combineVars, srtVars, titleVars>>

ExtractNext == ExtractCall

SpecExtract == ExtractInit /\ [][ExtractNext]_vars

\* ------------------------------------------------------------------------
\* Specification: one call of search_transcripts
\* ------------------------------------------------------------------------
SearchInit ==
    /\ se_pc = "start"
    /\ \/ se_dir = NoDirectory
       \/ \E S \in SUBSET MdNames : \E md \in [S -> FileContents] : se_dir = DirectoryOf(md)
    /\ \E k \in Keywords, cs \in BOOLEAN, c \in Contexts, m \in Caps :
           /\ (cs => k = <<97>>)
           /\ (c # DefaultContext => (k = <<97>> /\ ~cs /\ m = 3))
           /\ se_args = [keyword |-> k, case_sensitive |-> cs, context_lines |-> c, max_results |-> m]
    /\ se_files = << >>
    /\ se_file = 0
    /\ se_lines = << >>
    /\ se_line = 0
    /\ se_results = << >>
    /\ CleanIdle
    /\ SelectorIdle
    /\ ChannelIdle
    /\ SingleIdle
    /\ MarkdownIdle
    /\ ExtractIdle
    /\ CombineIdle
    /\ SrtIdle
    /\ TitleIdle

\* the checks of the keyword and of the file list, and the opening of the
\* first file
SearchStart ==
    /\ se_pc = "start"
    /\ LET files == IF BlankKeyword(se_args.keyword) THEN << >>
                    ELSE get_transcript_files(se_dir)
       IN  IF files = << >>
           THEN /\ se_pc' = "returned"
                /\ UNCHANGED <<se_files, se_file, se_lines, se_line>>
           ELSE /\ se_pc' = "scan"
                /\ se_files' = files
                /\ se_file' = 1
                /\ se_lines' = readlines(se_dir.files[files[1]])
                /\ se_line' = 1
    /\ UNCHANGED <<se_dir, se_args, se_results, cleanVars, selectorVars, channelVars, singleVars, markdownVars, extractVars, combineVars, srtVars, titleVars>>

\* one pass of "for i, line in enumerate(lines)"
SearchLine ==
    /\ se_pc = "scan"
    /\ se_line <= Len(se_lines)
    /\ IF PatternSearch(se_args.keyword, se_args.case_sensitive, se_lines[se_line])
       THEN /\ se_results' = Append(se_results,
                                    SearchResult(se_files[se_file], se_lines, se_line, se_args.context_lines))
            /\ IF Len(se_results') >= se_args.max_results
               THEN se_pc' = "returned" /\ se_line' = se_line
               ELSE se_pc' = se_pc /\ se_line' = se_line + 1
       ELSE /\ se_line' = se_line + 1
            /\ UNCHANGED <<se_pc, se_results>>
    /\ UNCHANGED <<se_dir, se_args, se_files, se_file, se_lines, cleanVars, selectorVars, channelVars, singleVars, markdownVars, extractVars, combineVars, srtVars, titleVars>>

\* the next pass of "for filepath in files"
SearchNextFile ==
    /\ se_pc = "scan"
    /\ se_line > Len(se_lines)
    /\ se_file < Len(se_files)
    /\ se_file' = se_file + 1
    /\ se_lines' = readlines(se_dir.files[se_files[se_file + 1]])
    /\ se_line' = 1
    /\ UNCHANGED <<se_pc, se_dir, se_args, se_files, se_results, cleanVars, selectorVars, channelVars, singleVars, markdownVars, extractVars, combineVars, srtVars, titleVars>>

\* the return after the last file
SearchReturn ==
    /\ se_pc = "scan"
    /\ se_line > Len(se_lines)
    /\ se_file = Len(se_files)
    /\ se_pc' = "returned"
    /\ UNCHANGED <<se_dir, se_args, se_files, se_file, se_lines, se_line, se_results, cleanVars, selectorVars, channelVars, singleVars, markdownVars, extractVars, combineVars, srtVars, titleVars>>

SearchNext == SearchStart \/ SearchLine \/ SearchNextFile \/ SearchReturn

SpecSearch == SearchInit /\ [][SearchNext]_vars

\* ------------------------------------------------------------------------
\* Specification: combine_transcripts(directory, output_file, fmt), called twice
\* ------------------------------------------------------------------------
CombineInit ==
    /\ co_pc = "start"
    /\ \/ /\ \/ co_dir = NoDirectory
             \/ \E S \in SUBSET CombineNames : \E md \in [S -> CombineContents] :
                    co_dir = DirectoryOf(md)
          /\ \E o \in {NoneVal, CustomOutput}, f \in CombineFormats, w \in BOOLEAN :
                 co_args = [output_file |-> o, fmt |-> f, writable |-> w, blksize |-> 4096]
       \/ /\ co_dir \in LongDirectories
          /\ \E o \in {NoneVal, << >>}, f \in {FmtMd, FmtTxt, FmtPdf}, b \in BlockSizes :
                 co_args = [output_file |-> o, fmt |-> f, writable |-> TRUE, blksize |-> b]
    /\ co_files = << >>
    /\ co_idx = 0
    /\ co_transcripts = << >>
    /\ co_artifact = NoArtifact
    /\ co_ret = NoneVal
    /\ co_run = 1
    /\ co_first = NoArtifact
    /\ co_out = Opened(co_args.blksize)
    /\ CleanIdle
    /\ SelectorIdle
    /\ ChannelIdle
    /\ SingleIdle
    /\ MarkdownIdle
    /\ ExtractIdle
    /\ SearchIdle
    /\ SrtIdle
    /\ TitleIdle

\* the directory with the file of the given name holding the given content
WithFile(dir, name, content) ==
    [dir EXCEPT !.files = [n \in DOMAIN dir.files \cup {name} |->
                              IF n = name THEN content ELSE dir.files[n]]]

\* combine_transcripts up to the loop over the files.  _combine_as_markdown
\* and _combine_as_text open the output before the loop, which empties a
\* file of that name and raises when it cannot be written; _combine_as_json
\* opens it after the loop.
CombineStart ==
    /\ co_pc = "start"
    /\ LET files  == get_transcript_files(co_dir)
           output == OutputFile(co_args.output_file, co_args.fmt)
       IN  IF files = << >>
           THEN /\ co_pc' = "returned"
                /\ UNCHANGED <<co_files, co_idx, co_dir, co_out>>
           ELSE IF co_args.fmt # FmtJson /\ ~co_args.writable
           THEN /\ co_pc' = "returned"
                /\ UNCHANGED <<co_files, co_idx, co_dir, co_out>>
           ELSE LET out == IF co_args.fmt \in {FmtJson, FmtTxt} THEN Opened(co_args.blksize)
                           ELSE TextWriteAll(Opened(co_args.blksize), MarkdownHeader(Len(files)), 1)
                IN  /\ co_pc' = "files"
                    /\ co_files' = files
                    /\ co_idx' = 1
                    /\ co_out' = out
                    /\ co_dir' = IF co_args.fmt # FmtJson /\ DefaultOutput(co_args)
                                 THEN WithFile(co_dir, output, out.disk)
                                 ELSE co_dir
    /\ UNCHANGED <<co_args, co_transcripts, co_artifact, co_ret, co_run, co_first, cleanVars, selectorVars, channelVars, singleVars, markdownVars, extractVars, searchVars, srtVars, titleVars>>

\* one pass of "for filepath in files": the file is read and its part
\* written to the output, or the error is logged and the file skipped; the
\* file of the output holds what has reached the disk
CombineFile ==
    /\ co_pc = "files"
    /\ co_idx <= Len(co_files)
    /\ LET name    == co_files[co_idx]
           content == co_dir.files[name]
       IN  IF content = Unreadable
           THEN UNCHANGED <<co_transcripts, co_out, co_dir>>
           ELSE LET item == CombinedItem(co_args.fmt, name, content)
                    out  == IF co_args.fmt = FmtJson THEN co_out
                            ELSE TextWriteAll(co_out, PassWrites(co_args.fmt, item), 1)
                IN  /\ co_transcripts' = Append(co_transcripts, item)
                    /\ co_out' = out
                    /\ co_dir' = IF co_args.fmt # FmtJson /\ DefaultOutput(co_args)
                                 THEN WithFile(co_dir, OutputFile(co_args.output_file, co_args.fmt),
                                               out.disk)
                                 ELSE co_dir
    /\ co_idx' = co_idx + 1
    /\ UNCHANGED <<co_pc, co_args, co_files, co_artifact, co_ret, co_run, co_first, cleanVars, selectorVars, channelVars, singleVars, markdownVars, extractVars, searchVars, srtVars, titleVars>>

\* the artifact is written and its path returned; when the JSON artifact
\* cannot be written, combine_transcripts catches the error and returns None
CombineWrite ==
    /\ co_pc = "files"
    /\ co_idx > Len(co_files)
    /\ IF co_args.writable
       THEN LET output == OutputFile(co_args.output_file, co_args.fmt)
            IN  /\ co_artifact' = [path |-> output,
                                   total_videos |-> IF co_args.fmt = FmtTxt THEN -1 ELSE Len(co_files),
                                   transcripts |-> co_transcripts]
                /\ co_ret' = output
                /\ co_dir' = IF ~DefaultOutput(co_args) THEN co_dir
                             ELSE WithFile(co_dir, output,
                                           IF co_args.fmt = FmtJson THEN Structured
                                           ELSE Closed(co_out))
       ELSE UNCHANGED <<co_artifact, co_ret, co_dir>>
    /\ co_pc' = "returned"
    /\ UNCHANGED <<co_args, co_files, co_idx, co_transcripts, co_run, co_first, co_out, cleanVars, selectorVars, channelVars, singleVars, markdownVars, extractVars, searchVars, srtVars, titleVars>>

\* the same call is made again, on the directory the first call left
CombineAgain ==
    /\ co_pc = "returned"
    /\ co_run = 1
    /\ co_run' = 2
    /\ co_first' = co_artifact
    /\ co_pc' = "start"
    /\ co_files' = << >>
    /\ co_idx' = 0
    /\ co_transcripts' = << >>
    /\ co_artifact' = NoArtifact
    /\ co_ret' = NoneVal
    /\ co_out' = Opened(co_args.blksize)
    /\ UNCHANGED <<co_dir, co_args, cleanVars, selectorVars, channelVars, singleVars, markdownVars, extractVars, searchVars, srtVars, titleVars>>

CombineNext == CombineStart \/ CombineFile \/ CombineWrite \/ CombineAgain

SpecCombine == CombineInit /\ [][CombineNext]_vars

\* ------------------------------------------------------------------------
\* Specification: a transcript is written as SRT
\* ------------------------------------------------------------------------
SrtInit ==
    /\ sr_pc = "start"
    /\ sr_entries \in SeqsUpTo(SrtEntries, MaxEntries)
    /\ sr_out = << >>
    /\ CleanIdle
    /\ SelectorIdle
    /\ ChannelIdle
    /\ SingleIdle
    /\ MarkdownIdle
    /\ ExtractIdle
    /\ SearchIdle
    /\ CombineIdle
    /\ TitleIdle

WriteSrt ==
    /\ sr_pc = "start"
    /\ sr_out' = _write_srt(sr_entries)
    /\ sr_pc' = "written"
    /\ UNCHANGED <<sr_entries, cleanVars, selectorVars, channelVars, singleVars, markdownVars, extractVars, searchVars, combineVars, titleVars>>

SrtNext == WriteSrt

SpecSrt == SrtInit /\ [][SrtNext]_vars

\* ------------------------------------------------------------------------
\* Specification: the title search, combine and stats report for one file
\* ------------------------------------------------------------------------
TitleInit ==
    /\ tt_pc = "start"
    /\ tt_name \in MdNames
    /\ tt_content \in TitledContents
    /\ tt_titles = NoTitles
    /\ CleanIdle
    /\ SelectorIdle
    /\ ChannelIdle
    /\ SingleIdle
    /\ MarkdownIdle
    /\ ExtractIdle
    /\ SearchIdle
    /\ CombineIdle
    /\ SrtIdle

\* search_transcripts reads the file
TitleBySearch ==
    /\ tt_pc = "start"
    /\ tt_titles' = [tt_titles EXCEPT !.search = SearchTitle(tt_name, readlines(tt_content))]
    /\ tt_pc' = "searched"
    /\ UNCHANGED <<tt_name, tt_content, cleanVars, selectorVars, channelVars, singleVars, markdownVars, extractVars, searchVars, combineVars, srtVars>>

\* combine_transcripts(fmt="json") reads the file
TitleByJson ==
    /\ tt_pc = "searched"
    /\ tt_titles' = [tt_titles EXCEPT !.json = ParseMarkdown(tt_name, tt_content).title]
    /\ tt_pc' = "json"
    /\ UNCHANGED <<tt_name, tt_content, cleanVars, selectorVars, channelVars, singleVars, markdownVars, extractVars, searchVars, combineVars, srtVars>>

\* combine_transcripts(fmt="txt") reads the file
TitleByText ==
    /\ tt_pc = "json"
    /\ tt_titles' = [tt_titles EXCEPT !.txt = TextTitle(tt_name, readlines(tt_content))]
    /\ tt_pc' = "txt"
    /\ UNCHANGED <<tt_name, tt_content, cleanVars, selectorVars, channelVars, singleVars, markdownVars, extractVars, searchVars, combineVars, srtVars>>

\* get_stats reads the file
TitleByStats ==
    /\ tt_pc = "txt"
    /\ tt_titles' = [tt_titles EXCEPT !.stats = StatsTitle(tt_name, readlines(tt_content))]
    /\ tt_pc' = "done"
    /\ UNCHANGED <<tt_name, tt_content, cleanVars, selectorVars, channelVars, singleVars, markdownVars, extractVars, searchVars, combineVars, srtVars>>

TitleNext == TitleBySearch \/ TitleByJson \/ TitleByText \/ TitleByStats

SpecTitle == TitleInit /\ [][TitleNext]_vars

\* ------------------------------------------------------------------------
\* Properties of the channel fetch
\* ------------------------------------------------------------------------
Returned == fc_pc \in {"returned", "exited"}

\* the files of a file system, its directories left out
Files(fs) == {p \in DOMAIN fs : fs[p] # Directory}

\* the videos a run has to process: the listing, cut to a positive limit
ToProcess ==
    IF fc_scn.limit > 0 /\ fc_scn.limit < Len(fc_scn.channel)
    THEN fc_scn.limit
    ELSE Len(fc_scn.channel)

TallyOps == {"success", "failed", "skipped"}

IsTally(e) == e.op \in TallyOps

IsWrite(e) == e.op = "write"

\* the increments of the counters a run made, in order
Tallied == SelectSeq(fc_log, IsTally)

\* the files a run opened for writing, in order
Written == SelectSeq(fc_log, IsWrite)

WrittenPaths == {Written[k].path : k \in 1..Len(Written)}

\* the file names the run's videos are saved under are pairwise distinct
DistinctNames ==
    \A i, j \in 1..Len(fc_scn.channel) :
        i # j => SavePath(ResolvedTitle(fc_scn.channel[i], fc_scn.api = "client"), VideoId(i), fc_scn.fmt)
                 # SavePath(ResolvedTitle(fc_scn.channel[j], fc_scn.api = "client"), VideoId(j), fc_scn.fmt)

CleanEnvironment ==
    /\ fc_scn.env.pre = {}
    /\ fc_scn.env.unopenable = {}
    /\ fc_scn.env.writefail = {}

\* C1: the second of two runs with skip_existing=True on an unchanged channel
\* returns success = 0 and skipped = the first run's success count.  Stated
\* for runs that start on an empty directory, without I/O failures and with
\* pairwise distinct file names, where no file is there for any other reason.
SecondRunSkipsSaved ==
    (fc_run = 2 /\ Returned /\ fc_scn.skip /\ CleanEnvironment /\ DistinctNames) =>
        /\ fc_results.success = 0
        /\ fc_results.skipped = fc_first.success

\* C2: once the listing succeeded, every video of the truncated list is
\* processed exactly once, in the listing's order, and increments exactly one
\* counter, whatever happened to the videos before it; at return the counters
\* add up to the length of the truncated list.
EveryVideoTalliedOnce ==
    fc_pc \in {"loop", "returned", "exited"} =>
        /\ fc_results.success + fc_results.failed + fc_results.skipped = fc_idx
        /\ Len(Tallied) = fc_idx
        /\ \A k \in 1..Len(Tallied) : Tallied[k].video = VideoId(k)
        /\ \A t \in TallyOps :
               fc_results[t] = Cardinality({k \in 1..Len(Tallied) : Tallied[k].op = t})
        /\ (Returned /\ fc_scn.listing = "ok") => fc_idx = ToProcess

\* a run that returned after a video without transcript, a video whose save
\* failed and a video that was saved or skipped
EveryVideoTalliedOnceWitness ==
    /\ Returned
    /\ Len(fc_todo) >= 2
    /\ fc_todo[1].src = SrcDisabled
    /\ fc_scn.env.unopenable # {} \/ fc_scn.env.writefail # {}
    /\ fc_results.failed = 2
    /\ \E k \in 1..Len(fc_log) : fc_log[k].op = "get_transcript" /\ fc_log[k].video = VideoId(2)

\* C5: a failed listing ends the run with a nonzero exit status, and what the
\* caller sees differs from the run on an empty channel (all counts zero, exit 0).
FailedListingIsFatal ==
    (fc_pc = "exited" /\ fc_scn.listing = "fail") =>
        /\ fc_exit # 0
        /\ <<fc_results, fc_exit>> # <<ZeroTally, 0>>

\* C6: in one run, for either value of skip_existing, no file is written more
\* than once and the run wrote as many distinct files as it counts successes.
\* Stated for runs without I/O failures.
FilesWrittenOnce ==
    (Returned /\ CleanEnvironment) =>
        /\ \A i, j \in 1..Len(Written) : i # j => Written[i].path # Written[j].path
        /\ Cardinality(WrittenPaths) = fc_results.success

\* what one pass of the loop appended to the log
PassEvents == SubSeq(fc_log', Len(fc_log) + 1, Len(fc_log'))

PassOps == {PassEvents[k].op : k \in 1..Len(PassEvents)}

\* C19: with skip_existing=True, a video whose file for the resolved title
\* and format is there is passed without a call of the transcript source,
\* the file system stays as it is and only skipped is incremented; with
\* skip_existing=False no existence check is made and the transcript source
\* is called, and the file that is there is written anew with the video's
\* transcript.  The video's file is the one the existence check names and
\* the one save_transcript writes, which the claim takes to be one file.
\* Stated for files the environment lets the run open and write.
SkipLeavesFile ==
    [][(fc_pc = "loop" /\ fc_idx' = fc_idx + 1) =>
          LET video == fc_todo[fc_idx + 1]
              id    == VideoId(fc_idx + 1)
              title == ResolvedTitle(video, fc_client)
          IN  /\ ~fc_scn.skip =>
                     /\ "exists" \notin PassOps
                     /\ "skipped" \notin PassOps
                     /\ "get_transcript" \in PassOps
              /\ \A path \in {join(OutputDir, FileName(title, fc_scn.fmt)),
                              SavePath(title, id, fc_scn.fmt)} :
                     (exists(fc_fs, path) /\ Resolve(fc_fs, path) \in Files(fc_fs)) =>
                         /\ fc_scn.skip =>
                                /\ "get_transcript" \notin PassOps
                                /\ "write" \notin PassOps
                                /\ fc_fs' = fc_fs
                                /\ fc_results' = [fc_results EXCEPT !.skipped = @ + 1]
                         /\ (/\ ~fc_scn.skip
                             /\ video.src = SrcData
                             /\ Resolve(fc_fs, path) \notin fc_scn.env.unopenable
                             /\ Resolve(fc_fs, path) \notin fc_scn.env.writefail) =>
                                /\ \E k \in 1..Len(PassEvents) :
                                       /\ PassEvents[k].op = "write"
                                       /\ PassEvents[k].video = id
                                       /\ Resolve(fc_fs, PassEvents[k].path) = Resolve(fc_fs, path)
                                /\ fc_fs'[Resolve(fc_fs, path)].video = id
                                /\ fc_fs'[Resolve(fc_fs, path)].writer = WriterOf(fc_scn.fmt)
    ]_vars

\* C21: in each pass of the loop the title used for the existence check and
\* for the file name is one title: the API's exactly when the client was
\* built and the lookup returned a title for the video, and the listing's
\* otherwise; a client that cannot be built or a lookup that fails ends no
\* run: every video of the run is counted.
ChannelTitleSource ==
    /\ [](Returned /\ fc_scn.listing = "ok" => Len(Tallied) = Len(fc_todo))
    /\ [][(fc_pc = "loop" /\ fc_idx' = fc_idx + 1) =>
              LET video == fc_scn.channel[fc_idx + 1]
                  byApi == /\ fc_scn.api = "client"
                           /\ video.api # NoneVal
                           /\ video.api # << >>
                  title == IF byApi THEN video.api ELSE video.title
              IN  /\ ("title_api" \in PassOps) <=> (fc_scn.api = "client")
                  /\ fc_scn.skip <=> ("exists" \in PassOps)
                  /\ \A k \in 1..Len(PassEvents) :
                         /\ PassEvents[k].op = "exists" =>
                                PassEvents[k].path = join(OutputDir, FileName(title, fc_scn.fmt))
                         /\ PassEvents[k].op = "write" =>
                                /\ PassEvents[k].path = join(OutputDir, FileName(title, fc_scn.fmt))
                                /\ fc_fs'[Resolve(fc_fs', PassEvents[k].path)].title = title
        ]_vars

\* C26: the path whose existence a pass checks is the path save_transcript
\* writes for the video, for every title and format, so that a video saved
\* in one run is skipped by the next run with skip_existing=True.
SkipCheckNamesSavedFile ==
    /\ \A j, k \in 1..Len(fc_log) :
           (/\ fc_log[j].op = "exists"
            /\ fc_log[k].op = "write"
            /\ fc_log[j].video = fc_log[k].video) => fc_log[j].path = fc_log[k].path
    /\ (fc_run = 2 /\ Returned /\ fc_scn.skip) =>
           \A i \in 1..Len(fc_todo) :
               (\E q \in DOMAIN fc_fs :
                    fc_fs[q].video = VideoId(i) /\ fc_fs[q].writer = WriterOf(fc_scn.fmt))
                   => \E k \in 1..Len(fc_log) : fc_log[k] = Event("skipped", VideoId(i), NoneVal)

\* C29: every file a successful save_transcript wrote into the directory, in
\* any of the formats md, json, txt and srt, is listed by
\* get_transcript_files of the directory.
SavedFilesAreListed ==
    LET listed == get_transcript_files([exists |-> IsDirectory(fc_fs, OutputDir),
                                        files  |-> OutputDirectory(fc_fs)])
    IN  \A q \in DOMAIN OutputDirectory(fc_fs) :
            OutputDirectory(fc_fs)[q].writer = WriterOf(fc_scn.fmt) =>
                \E k \in 1..Len(listed) : listed[k] = q

\* the number of videos a run with the given limit has to process
Cut == IF fc_scn.limit > 0
       THEN (IF fc_scn.limit < Len(fc_scn.channel) THEN fc_scn.limit ELSE Len(fc_scn.channel))
       ELSE Len(fc_scn.channel)

\* C20: a run processes the first min(limit, n) of the n listed videos, in
\* order, when limit > 0, and all n when limit <= 0; for a video beyond the
\* limit there is no title lookup, no transcript fetch, no write and no
\* increment of a counter.
LimitCutsListing ==
    (Returned /\ fc_scn.listing = "ok") =>
        /\ fc_idx = Cut
        /\ fc_results.success + fc_results.failed + fc_results.skipped = Cut
        /\ \A i \in 1..Cut :
               /\ fc_todo[i] = fc_scn.channel[i]
               /\ Tallied[i].video = VideoId(i)
               /\ fc_client => \E k \in 1..Len(fc_log) : fc_log[k] = Event("title_api", VideoId(i), NoneVal)
        /\ \A k \in 1..Len(fc_log) : \E i \in 1..Cut : fc_log[k].video = VideoId(i)
        /\ \A q \in Files(fc_fs) :
               fc_fs[q] = OldFile \/ \E i \in 1..Cut : fc_fs[q].video = VideoId(i)

\* a run with limit 1 and a title client over a listing of two videos with
\* transcripts: the second is left alone
LimitCutsListingWitness ==
    /\ Returned
    /\ fc_scn.limit = 1
    /\ fc_client
    /\ Len(fc_scn.channel) = 2
    /\ fc_scn.channel[2].src = SrcData
    /\ fc_scn.channel[2].title = TitleA
    /\ fc_results.success = 1
    /\ Files(fc_fs) = {join(OutputDir, FileName(TitleB, FmtMd))}
    /\ \A k \in 1..Len(fc_log) : fc_log[k].video = VideoId(1)

\* ------------------------------------------------------------------------
\* Properties of the single-video fetch
\* ------------------------------------------------------------------------
\* the title the file is written under: save_transcript takes the id for an
\* empty title
UsedTitle == IF fv_res.title = << >> THEN fv_res.video ELSE fv_res.title

SingleCalls == {fv_res.calls[i] : i \in 1..Len(fv_res.calls)}

\* the API lookup succeeded; the lookup by id at the enumeration source
\* would succeed
ApiSucceeds == fv_scn.api = "title"
ScrapeSucceeds == fv_scn.scrape \in {"runs", "str"} /\ fv_scn.scraped # << >>

Resolved == fv_pc \in {"returned", "exited"} /\ fv_res.video # NoneVal

\* C7: the title is the API's when a key is given and the lookup
\* succeeds, otherwise the enumeration source's when that lookup succeeds,
\* otherwise the id; with a key and a failed API lookup the enumeration
\* source is tried before the id is taken.
TitleFallbackChain ==
    Resolved =>
        /\ UsedTitle = (IF ApiSucceeds THEN TitleB
                        ELSE IF ScrapeSucceeds THEN fv_scn.scraped
                        ELSE fv_res.video)
        /\ (fv_scn.api # "nokey" /\ ~ApiSucceeds) => "scrapetube.get_video" \in SingleCalls

\* ------------------------------------------------------------------------
\* Properties of the selector
\* ------------------------------------------------------------------------
\* the languages a call asks for
RequestedLangs == IF gt_langs = NoneList THEN <<LangEn>> ELSE gt_langs

RequestedSet == {RequestedLangs[i] : i \in 1..Len(RequestedLangs)}

\* the manual track the request prefers: that of the first requested language
\* with a manual track
PreferredManual ==
    LET i == CHOOSE k \in 1..Len(RequestedLangs) :
                 /\ RequestedLangs[k] \in gt_src.manual
                 /\ \A j \in 1..(k - 1) : RequestedLangs[j] \notin gt_src.manual
    IN  <<"manual", RequestedLangs[i]>>

\* what fetching a track yields to the caller of get_transcript
Yield(track) ==
    CASE gt_src.fetch[track] \in {"error", "notfound"} -> NoneEntries
      [] gt_src.fetch[track] = "empty" -> << >>
      [] OTHER                         -> TrackEntries(track)

CallsOf(res) == {res.calls[i] : i \in 1..Len(res.calls)}

GeneratedTouched(res) ==
    \E c \in CallsOf(res) :
        \/ c = <<"find_generated">>
        \/ (Len(c) = 2 /\ c[1] = "fetch" /\ c[2][1] = "generated")

\* C3: when the listed tracks hold a manually created track for any requested
\* language, get_transcript returns what fetching that manual track yields and
\* neither looks up nor fetches a generated track, whatever the order of the
\* languages; a generated track is looked up only after the manual lookup was
\* made and found no match.
ManualPreferred ==
    gt_pc = "done" =>
        /\ (gt_src.list = "ok" /\ RequestedSet \cap gt_src.manual # {}) =>
               /\ gt_res.ret = Yield(PreferredManual)
               /\ ~GeneratedTouched(gt_res)
        /\ GeneratedTouched(gt_res) =>
               /\ RequestedSet \cap gt_src.manual = {}
               /\ \E i, j \in 1..Len(gt_res.calls) :
                      /\ i < j
                      /\ gt_res.calls[i] = <<"find_manual">>
                      /\ gt_res.calls[j] = <<"find_generated">>

\* a call that returned the manual German track although a generated English
\* track exists and English was asked for first
ManualPreferredWitness ==
    /\ gt_pc = "done"
    /\ gt_langs = <<LangEn, LangDe>>
    /\ gt_src.list = "ok"
    /\ gt_src.manual = {LangDe}
    /\ gt_src.generated = {LangEn}
    /\ gt_src.fetch[<<"generated", LangEn>>] = "data"
    /\ gt_res.ret = TrackEntries(<<"manual", LangDe>>)

\* the call failed at some step: the listing raised, no track matched, or the
\* fetch of a chosen track raised
SelectorFailed ==
    \/ gt_src.list # "ok"
    \/ /\ RequestedSet \cap gt_src.manual = {}
       /\ RequestedSet \cap gt_src.generated = {}
    \/ \E c \in CallsOf(gt_res) :
           Len(c) = 2 /\ c[1] = "fetch" /\ gt_src.fetch[c[2]] \in {"error", "notfound"}

\* C4: get_transcript never raises: no exception leaves the call, and a call
\* that failed at any step returns None.
GetTranscriptNeverRaises ==
    gt_pc = "done" =>
        /\ gt_res.raised = "none"
        /\ SelectorFailed => gt_res.ret = NoneEntries

\* a call whose fetch of the chosen track raised an error that is neither
\* TranscriptsDisabled nor NoTranscriptFound, and that returned None
GetTranscriptNeverRaisesWitness ==
    /\ gt_pc = "done"
    /\ gt_src.list = "ok"
    /\ \E c \in CallsOf(gt_res) :
           Len(c) = 2 /\ c[1] = "fetch" /\ gt_src.fetch[c[2]] = "error"
    /\ gt_res.ret = NoneEntries
    /\ gt_res.raised = "none"

\* ------------------------------------------------------------------------
\* Properties of the sanitizer
\* ------------------------------------------------------------------------
\* C9: clean_filename is idempotent: cleaning a cleaned name changes nothing.
CleanIdempotent == cf_pc = "twice" => cf_out2 = cf_out

\* C10: the result of clean_filename contains none of \ / : * ? " < > |.
CleanNoInvalidChars ==
    cf_pc \in {"once", "twice"} => \A i \in 1..Len(cf_out) : cf_out[i] \notin InvalidChars

\* C11: the result of clean_filename neither starts nor ends with a space,
\* a period or an underscore, also when the cleaned text was cut at max_len.
CleanTrimmed ==
    cf_pc \in {"once", "twice"} =>
        /\ cf_out[1] \notin TrimmedChars
        /\ cf_out[Len(cf_out)] \notin TrimmedChars

\* the characters clean_filename replaces or strips
OnlyReplacedOrStripped(text) ==
    \A i \in 1..Len(text) : text[i] \in InvalidChars \cup TrimmedChars \cup SpaceChars

\* C12: clean_filename never returns the empty string; it returns "untitled"
\* for a null or blank input and whenever the cleaning steps leave nothing,
\* as for a title of replaced and stripped characters only, and the cleaned
\* text otherwise.
CleanNeverEmpty ==
    cf_pc \in {"once", "twice"} =>
        /\ cf_out # << >>
        /\ (cf_in = NoneVal \/ OnlyReplacedOrStripped(cf_in)) => cf_out = Untitled
        /\ (cf_in # NoneVal /\ ~IsBlank(cf_in)) =>
               LET steps == CleanSteps(cf_in)
               IN  cf_out = (IF steps = << >> THEN Untitled ELSE steps)
        /\ cf_pc = "twice" => cf_out2 # << >>

\* a title that is not blank and of which the cleaning leaves nothing
CleanNeverEmptyWitness ==
    /\ cf_pc = "once"
    /\ cf_in = <<47, 46>>
    /\ CleanSteps(cf_in) = << >>
    /\ cf_out = Untitled

\* C23: the result has at most max_len characters; of a cleaned text longer
\* than that, the first max_len characters are kept whole when the next
\* character is a space, and are cut back to before their last space when
\* the cut is inside a word.
CleanCutsInsideWordOnly ==
    (cf_pc \in {"once", "twice"} /\ cf_in # NoneVal /\ ~IsBlank(cf_in)) =>
        LET t      == Cleaned(cf_in)
            head   == SubSeq(t, 1, max_len)
            spaces == {i \in 1..max_len : head[i] = 32}
        IN  /\ Len(cf_out) <= max_len
            /\ Len(t) > max_len =>
                   IF t[max_len + 1] = 32
                   THEN cf_out = head
                   ELSE spaces # {} =>
                            cf_out = SubSeq(head, 1, (CHOOSE i \in spaces : \A j \in spaces : j <= i) - 1)

\* C25: the context of a result at line i of a file of L lines is the lines
\* max(1, i - c) .. min(L, i + c) of the file in order, without their
\* trailing blanks, c being context_lines >= 0: it holds the matched line
\* and at most 2c + 1 lines.
SearchContextWindow ==
    \A r \in 1..Len(se_results) :
        LET res   == se_results[r]
            lines == readlines(se_dir.files[res.file])
            i     == res.line_number
            c     == se_args.context_lines
            lo    == IF i - c > 1 THEN i - c ELSE 1
            hi    == IF i + c < Len(lines) THEN i + c ELSE Len(lines)
        IN  /\ Len(res.context) = hi - lo + 1
            /\ \A k \in lo..hi : res.context[k - lo + 1] = RStrip(lines[k])
            /\ res.context[i - lo + 1] = res.line
            /\ Len(res.context) <= 2 * c + 1

\* returned with context_lines = 0: a match in the middle of the long file,
\* whose context is the matched line only
SearchContextWindowWitness ==
    /\ se_pc = "returned"
    /\ se_args.context_lines = 0
    /\ \E r \in 1..Len(se_results) :
           /\ se_dir.files[se_results[r].file] = LongFile
           /\ se_results[r].line_number = 2
           /\ se_results[r].context = <<<<65>>>>

\* ------------------------------------------------------------------------
\* Properties of the title of a file
\* ------------------------------------------------------------------------
\* the text of the first line that starts with "# ", the name without its
\* extension when there is none
FirstHeading(name, content) ==
    LET lines  == readlines(content)
        marked == {k \in 1..Len(lines) : lines[k][1] = 35 /\ Len(lines[k]) > 1 /\ lines[k][2] = 32}
    IN  IF marked = {} THEN Stem(name)
        ELSE LET k == CHOOSE x \in marked : \A y \in marked : x <= y
             IN  SubSeq(lines[k], 3, Len(lines[k]) - 1)

\* C24: search_transcripts, combine_transcripts (json and txt) and get_stats
\* report the same title for a file: the text of its first line starting
\* with "# ", and the file name without its extension when it has none.
TitlesAgree ==
    tt_pc = "done" =>
        /\ tt_titles.search = FirstHeading(tt_name, tt_content)
        /\ tt_titles.json = FirstHeading(tt_name, tt_content)
        /\ tt_titles.txt = FirstHeading(tt_name, tt_content)
        /\ tt_titles.stats = FirstHeading(tt_name, tt_content)

\* ------------------------------------------------------------------------
\* Properties of extract_video_id
\* ------------------------------------------------------------------------
\* C13: an input whose run of id characters is not 11 long, in a URL of a
\* recognised shape or bare, yields None.
ExtractRejectsOtherLengths ==
    (ev_pc = "done" /\ ev_scn # NoUrl /\ Len(ev_scn.run) # IdLen /\ ev_scn.suffix \in PlainSuffixes)
        => ev_out = NoneVal

\* C14: for a run X of 11 id characters, the watch URL of X, also with
\* further query parameters, and youtu.be/X, shorts/X, embed/X and X alone
\* yield X, with and without the prefixes.
ExtractRoundTrip ==
    (/\ ev_pc = "done"
     /\ ev_scn # NoUrl
     /\ Len(ev_scn.run) = IdLen
     /\ \/ ev_scn.suffix = << >>
        \/ ev_scn.shape = "watch" /\ ev_scn.suffix \in QueryParams)
        => ev_out = ev_scn.run

\* ------------------------------------------------------------------------
\* Properties of the Markdown round trip
\* ------------------------------------------------------------------------
\* the title save_transcript hands to the writer
WrittenTitle == IF rt_title = << >> THEN VideoId(1) ELSE rt_title

\* the (timestamp, text) pairs written: those of the entries whose text is
\* not empty after trimming, in order
RECURSIVE PairsFrom(_, _)
PairsFrom(entries, k) ==
    IF k > Len(entries) THEN << >>
    ELSE (IF EntryText(entries[k].text) # << >>
          THEN <<[timestamp |-> format_timestamp(entries[k].start),
                  text |-> EntryText(entries[k].text)]>>
          ELSE << >>)
         \o PairsFrom(entries, k + 1)

WrittenPairs == PairsFrom(rt_entries, 1)

\* C8, as claimed: the file save_transcript wrote, parsed by the combiner,
\* gives back the title that was written and the (timestamp, text) pairs
\* that were written, in order.
MarkdownRoundTrip ==
    rt_pc = "parsed" =>
        /\ rt_parsed.title = WrittenTitle
        /\ rt_parsed.entries = WrittenPairs

\* C28: for the Markdown file save_transcript wrote with video URL u, the
\* combiner (format json) reports the video_url u.
ParsedUrlIsWritten ==
    rt_pc = "parsed" => rt_parsed.video_url = VideoUrl(VideoId(1))

\* ------------------------------------------------------------------------
\* Properties of the search
\* ------------------------------------------------------------------------
\* C15: search_transcripts returns at most max_results results in all, for
\* every max_results >= 0.
SearchCapped ==
    se_pc = "returned" => Len(se_results) <= se_args.max_results

\* whether the keyword is a substring of the line, letter case ignored
\* unless case_sensitive is set
Contains(line, keyword, case_sensitive) ==
    \E p \in 1..Len(line), q \in 1..Len(line) :
        /\ q - p + 1 = Len(keyword)
        /\ \A k \in 1..Len(keyword) :
               \/ line[p + k - 1] = keyword[k]
               \/ /\ ~case_sensitive
                  /\ Fold(line[p + k - 1]) = Fold(keyword[k])

\* all matching lines of the files from the f-th on, file by file and top
\* to bottom
RECURSIVE MatchesFrom(_, _)
MatchesFrom(files, f) ==
    IF f > Len(files) THEN << >>
    ELSE LET lines == readlines(se_dir.files[files[f]])
             hits  == {i \in 1..Len(lines) :
                          Contains(lines[i], se_args.keyword, se_args.case_sensitive)}
         IN  [k \in 1..Cardinality(hits) |->
                 LET i == CHOOSE x \in hits : Cardinality({y \in hits : y < x}) = k - 1
                 IN  [file |-> files[f], line_number |-> i, line |-> RStrip(lines[i])]]
             \o MatchesFrom(files, f + 1)

AllMatches == MatchesFrom(get_transcript_files(se_dir), 1)

FirstOf(s, n) == SubSeq(s, 1, IF n < Len(s) THEN n ELSE Len(s))

\* C16: the results are the first max_results of all matching lines, in
\* sorted file order and line order; a blank keyword gives no results.
SearchFirstMatches ==
    se_pc = "returned" =>
        [k \in 1..Len(se_results) |->
            [file |-> se_results[k].file, line_number |-> se_results[k].line_number,
             line |-> se_results[k].line]]
        = (IF BlankKeyword(se_args.keyword) THEN << >>
           ELSE FirstOf(AllMatches, se_args.max_results))

\* ------------------------------------------------------------------------
\* Properties of the combiner
\* ------------------------------------------------------------------------
\* the transcript files of the directory: its names ending in ".md"
TranscriptNames ==
    IF co_dir.exists THEN {n \in DOMAIN co_dir.files : EndsWithMd(n)} ELSE {}

\* C17: without transcript files, or without the directory, None is returned
\* and no artifact written; with n transcript files the artifact has
\* total_videos = n and n elements in transcripts, one per file in sorted
\* order of the names.
CombineCountsFiles ==
    (co_pc = "returned" /\ co_args.fmt = FmtJson) =>
        /\ TranscriptNames = {} => (co_ret = NoneVal /\ co_artifact = NoArtifact)
        /\ (TranscriptNames # {} /\ co_args.writable) =>
               /\ co_ret = co_artifact.path
               /\ co_artifact.total_videos = Cardinality(TranscriptNames)
               /\ Len(co_artifact.transcripts) = Cardinality(TranscriptNames)
               /\ \A k \in 1..Len(co_artifact.transcripts) :
                      LET name == SortedNames(TranscriptNames)[k]
                      IN  co_artifact.transcripts[k] = ParseMarkdown(name, co_dir.files[name])

\* C27: with the default output path the artifact is never listed as a
\* transcript file, and a second combine over the directory gives the same
\* total and the same content as the first.
CombineLeavesCorpus ==
    (co_pc = "returned" /\ DefaultOutput(co_args)) =>
        /\ \A k \in 1..Len(get_transcript_files(co_dir)) :
               get_transcript_files(co_dir)[k] # CombinedName(co_args.fmt)
        /\ co_run = 2 =>
               /\ co_artifact.total_videos = co_first.total_videos
               /\ co_artifact.transcripts = co_first.transcripts

\* C30: in a JSON artifact total_videos is the number of elements of
\* transcripts, also when files could not be read and were skipped.
TotalCountsTranscripts ==
    (co_pc = "returned" /\ co_args.fmt = FmtJson /\ co_artifact # NoArtifact) =>
        co_artifact.total_videos = Len(co_artifact.transcripts)

\* ------------------------------------------------------------------------
\* Properties of the SRT writer
\* ------------------------------------------------------------------------
\* a time of so many milliseconds as zero-padded HH:MM:SS,mmm
SrtTimeOf(millis) ==
    Dec02(millis \div 3600000) \o <<58>> \o Dec02((millis % 3600000) \div 60000) \o <<58>>
    \o Dec02((millis % 60000) \div 1000) \o <<44>> \o Dec03(millis % 1000)

\* the cues of the entries from the k-th on, each from its start s to s + d,
\* d being 2 seconds for an entry without duration
RECURSIVE CuesFrom(_, _, _)
CuesFrom(entries, k, index) ==
    IF k > Len(entries) THEN << >>
    ELSE LET s == entries[k].start
             d == IF entries[k].duration = NoDuration THEN 2000 ELSE entries[k].duration
         IN  IF EntryText(entries[k].text) = << >> THEN CuesFrom(entries, k + 1, index)
             ELSE Dec(index) \o <<10>>
                  \o SrtTimeOf(s) \o SrtArrow \o SrtTimeOf(s + d) \o <<10>>
                  \o EntryText(entries[k].text) \o <<10, 10>>
                  \o CuesFrom(entries, k + 1, index + 1)

\* C18: the cue written for an entry with text, start s and duration d, in
\* whole milliseconds, runs from s to s + d, both as HH:MM:SS,mmm, d being 2
\* seconds when the entry has none.
SrtCueTimes == sr_pc = "written" => sr_out = CuesFrom(sr_entries, 1, 1)

\* an entry whose text is not empty after trimming
HasText(entry) == StripBy(entry.text, SpaceChars \cup {10}) # << >>

\* the lines of the SRT output
SrtLines == readlines(sr_out)

\* C22: the output holds one cue of four lines (number, times, text, blank)
\* for each entry with text, in the order of the entries, and the numbers of
\* the cues are 1, 2, ..., k; an entry without text gives no cue and takes no
\* number.
SrtCueNumbers ==
    sr_pc = "written" =>
        LET kept == SelectSeq(sr_entries, HasText)
        IN  /\ Len(SrtLines) = 4 * Len(kept)
            /\ \A j \in 1..Len(kept) :
                   /\ SrtLines[4 * j - 3] = Dec(j) \o <<10>>
                   /\ StartsWith(SrtLines[4 * j - 2], _srt_time(Seconds(kept[j].start)) \o SrtArrow)
                   /\ SrtLines[4 * j - 1] = kept[j].text \o <<10>>
                   /\ SrtLines[4 * j] = <<10>>

\* written: a blank entry followed by an entry with text, whose cue is number 1
SrtCueNumbersWitness ==
    /\ sr_pc = "written"
    /\ Len(sr_entries) = 2
    /\ ~HasText(sr_entries[1])
    /\ HasText(sr_entries[2])
    /\ Len(SrtLines) = 4
    /\ SrtLines[1] = <<49, 10>>

====
